---- MODULE Spec2Model ----
(***************************************************************************)
(* Construction-document assistant: the document store, the background     *)
(* document processor started by documents.upload, documents.delete, and   *)
(* the tool-calling chat agent (runAgent).                                 *)
(*                                                                         *)
(* Text is a sequence of one-character strings; string indices are the     *)
(* 0-based indices of the TypeScript source.  A nullable column or an      *)
(* optional value is None or Some(v).                                      *)
(***************************************************************************)
EXTENDS Integers, Sequences, FiniteSets, TLC

\* ------------------------------------------------------------------ bounds

\* Number of documents.upload calls ever made (document ids are 1..MaxDocs).
MaxDocs == 1

Users == {1, 2}

\* The users who upload; every user calls documents.delete, on any id.
Uploaders == {1}

FileTypes == {"pdf", "txt", "docx"}

\* ------------------------------------------------------------ option values

None == [some |-> FALSE]

Some(v) == [some |-> TRUE, val |-> v]

\* --------------------------------------------------------------- arithmetic

Min(a, b) == IF a <= b THEN a ELSE b

Max(a, b) == IF a >= b THEN a ELSE b

SetMax(S) == CHOOSE x \in S : \A y \in S : y <= x

SetMin(S) == CHOOSE x \in S : \A y \in S : x <= y

\* Math.ceil(n / d) for integers n >= 0, d > 0.
CeilDiv(n, d) == (n + d - 1) \div d

\* ------------------------------------------------------------ string helpers

Whitespace == {" ", "\n", "\t", "\r"}

\* pat occurs in text at 0-based index i.
MatchAt(text, pat, i) ==
  /\ i >= 0
  /\ i + Len(pat) <= Len(text)
  /\ \A k \in 1..Len(pat) : text[i + k] = pat[k]

\* String.prototype.indexOf(pat): first index, -1 when absent.
IndexOf(text, pat) ==
  LET cands == {i \in 0..(Len(text) - Len(pat)) : MatchAt(text, pat, i)}
  IN  IF cands = {} THEN -1 ELSE SetMin(cands)

\* String.prototype.lastIndexOf(pat, from): the last index <= from at which
\* pat starts (the match itself may run past from); a negative from counts
\* as 0.
LastIndexOf(text, pat, from) ==
  LET hi    == Min(Max(from, 0), Len(text) - Len(pat))
      cands == {i \in 0..hi : MatchAt(text, pat, i)}
  IN  IF cands = {} THEN -1 ELSE SetMax(cands)

\* String.prototype.slice(start, end): a negative index counts from the end.
Slice(text, start, end) ==
  LET n == Len(text)
      s == IF start < 0 THEN Max(n + start, 0) ELSE Min(start, n)
      e == IF end < 0 THEN Max(n + end, 0) ELSE Min(end, n)
  IN  IF s >= e THEN << >> ELSE SubSeq(text, s + 1, e)

\* The text as it is.
Untrimmed(text) == text

\* String.prototype.trim().
Trim(text) ==
  LET keep == {i \in 1..Len(text) : text[i] \notin Whitespace}
  IN  IF keep = {} THEN << >> ELSE SubSeq(text, SetMin(keep), SetMax(keep))

\* Number of matches of a literal pattern that cannot overlap itself
\* ((text.match(/\[PAGE BREAK\]/g) || []).length).
CountMatches(text, pat) ==
  Cardinality({i \in 0..(Len(text) - Len(pat)) : MatchAt(text, pat, i)})

\* ------------------------------------------------------------------ chunker

CHUNK_SIZE == 2000

CHUNK_OVERLAP == 200

\* Chunks of at most this many characters are filtered out.
TINY_CHUNK == 50

breakPoints == << <<"\n", "\n">>, <<".", "\n">>, <<".", " ">>, <<"\n">> >>

\* The break points, from index k on, tried in order: the first one whose last
\* occurrence at or before end lies after the window's midpoint moves the end
\* to just after it.
RECURSIVE BreakEnd(_, _, _, _, _)
BreakEnd(text, chunkSize, start, end, k) ==
  IF k > Len(breakPoints) THEN end
  ELSE LET bp        == breakPoints[k]
           lastBreak == LastIndexOf(text, bp, end)
       IN  IF 2 * lastBreak > 2 * start + chunkSize
           THEN lastBreak + Len(bp)
           ELSE BreakEnd(text, chunkSize, start, end, k + 1)

\* The end of the window that starts at start.
WindowEnd(text, chunkSize, start) ==
  LET end == start + chunkSize
  IN  IF end < Len(text) THEN BreakEnd(text, chunkSize, start, end, 1) ELSE end

\* The loop of splitIntoChunks from window start `start`, at most `fuel`
\* iterations: the trimmed windows in order, before the filter.
RECURSIVE SplitLoop(_, _, _, _, _)
SplitLoop(text, chunkSize, overlap, start, fuel) ==
  IF fuel = 0 \/ ~(start < Len(text)) THEN << >>
  ELSE LET end == WindowEnd(text, chunkSize, start)
       IN  << Trim(Slice(text, start, end)) >>
             \o SplitLoop(text, chunkSize, overlap, end - overlap, fuel - 1)

\* A filter that keeps the chunks of 50 characters.
FilterShorter(chunks) == SelectSeq(chunks, LAMBDA c : Len(c) >= TINY_CHUNK)

\* chunks.filter(c => c.length > 50)
FilterTiny(chunks) == SelectSeq(chunks, LAMBDA c : Len(c) > TINY_CHUNK)

\* splitIntoChunks with the default parameters, as processDocumentWithLLM
\* calls it.  Every window but the last advances the start by more than
\* chunkSize / 2 - overlap = 800, so Len(text) iterations are never used up.
splitIntoChunks(text) ==
  FilterTiny(SplitLoop(text, CHUNK_SIZE, CHUNK_OVERLAP, 0, Len(text) + 1))

\* estimatePageNumber: Math.ceil(charPosition / (totalChars / totalPages)).
estimatePageNumber(charPosition, totalChars, totalPages) ==
  IF totalPages = 0 THEN 1
  ELSE CeilDiv(charPosition * totalPages, totalChars)

\* --------------------------------------------------------- document texts

PAGE_BREAK == <<"[", "P", "A", "G", "E", " ", "B", "R", "E", "A", "K", "]">>

\* "Concrete shall have minimum compressive strength of 4000 psi."
TextSentence ==
  << "C", "o", "n", "c", "r", "e", "t", "e", " ", "s", "h", "a", "l", "l", " ", "h",
     "a", "v", "e", " ", "m", "i", "n", "i", "m", "u", "m", " ", "c", "o", "m", "p",
     "r", "e", "s", "s", "i", "v", "e", " ", "s", "t", "r", "e", "n", "g", "t", "h",
     " ", "o", "f", " ", "4", "0", "0", "0", " ", "p", "s", "i", "." >>

\* Two pages of a pdf as the extraction returns them.
TextTwoPages == TextSentence \o <<"\n">> \o PAGE_BREAK \o <<"\n">> \o TextSentence

\* What the extraction of an uploaded file of each type can return: an empty
\* and a one-sentence text file, a pdf of two pages, a Word file.
ExtractedTexts(fileType) ==
  CASE fileType = "txt" -> { << >>, TextSentence }
    [] fileType = "pdf" -> { TextTwoPages }
    [] OTHER            -> { TextSentence }

\* ---------------------------------------------------------- document store

DocIds == 1..MaxDocs

\* The file name an upload of each type carries.
UploadName(fileType) ==
  CASE fileType = "pdf" -> "upload.pdf"
    [] fileType = "txt" -> "upload.txt"
    [] OTHER            -> "upload.docx"

\* A row created already in processing.
NewDocumentProcessing(userId, fileType) ==
  [ userId           |-> userId,
    originalName     |-> UploadName(fileType),
    fileType         |-> fileType,
    documentType     |-> "other",
    processingStatus |-> "processing",
    extractedText    |-> None,
    pageCount        |-> None ]

\* The row createDocument inserts for documents.upload (documentType is left
\* out of the input, so it is "other").
NewDocument(userId, fileType) ==
  [ userId           |-> userId,
    originalName     |-> UploadName(fileType),
    fileType         |-> fileType,
    documentType     |-> "other",
    processingStatus |-> "pending",
    extractedText    |-> None,
    pageCount        |-> None ]

\* updateDocumentStatus(id, status, extractedText?, pageCount?): one UPDATE
\* ... WHERE id = ?, which changes nothing when the row is gone.
updateDocumentStatus(docs, id, status, extractedText, pageCount) ==
  IF ~docs[id].some THEN docs
  ELSE [docs EXCEPT ![id] = Some(
         [ @.val EXCEPT
             !.processingStatus = status,
             !.extractedText = IF extractedText.some THEN extractedText ELSE @,
             !.pageCount = IF pageCount.some THEN pageCount ELSE @ ])]

\* The page count processDocumentWithLLM derives from the extracted text.
PageCountOf(fileType, text) ==
  CASE fileType = "pdf" -> Some(CountMatches(text, PAGE_BREAK) + 1)
    [] fileType = "txt" -> Some(CeilDiv(Len(text), 3000))
    [] OTHER            -> None

\* pageCount ? estimatePageNumber(chunkStart, text.length, pageCount) : null
ChunkPageNumber(chunkStart, text, pageCount) ==
  IF pageCount.some /\ pageCount.val # 0
  THEN Some(estimatePageNumber(chunkStart, Len(text), pageCount.val))
  ELSE None

\* The chunk records processDocumentWithLLM builds from the extracted text.
\* The texts of the model have no heading line, so extractSections finds no
\* section and sectionTitle is null.
ChunkRecords(documentId, userId, extractedText, pageCount) ==
  LET textChunks == splitIntoChunks(extractedText)
  IN  { LET content    == textChunks[i]
            chunkStart == IndexOf(extractedText, content)
        IN  [ documentId  |-> documentId,
              userId      |-> userId,
              chunkIndex  |-> i - 1,
              content     |-> content,
              pageNumber  |-> ChunkPageNumber(chunkStart, extractedText, pageCount),
              sectionTitle |-> None,
              startOffset |-> chunkStart,
              endOffset   |-> chunkStart + Len(content) ]
        : i \in 1..Len(textChunks) }

\* ------------------------------------------------------------------- state

VARIABLES
  documents,       \* the documents table: id -> None | Some(row)
  nextDocId,       \* the next auto-increment id of the documents table
  documentChunks,  \* the document_chunks table: a set of chunk rows
  proc,            \* per document: the background task documents.upload started
  response,        \* per document: what documents.upload gave its caller
  del,             \* the deleteDocument call in flight, None | Some(call)
  run,             \* the runAgent call: its position and its locals
  llmLog,          \* the invokeLLM calls runAgent has made, with their responses
  ownerNotifications,  \* number of notifyOwner calls runAgent has made
  outcome,         \* how runAgent ended: None | Some(returned or thrown)
  conversations,   \* the conversations table: id -> None | Some(row)
  messages,        \* the messages table: a set of message rows
  reports,         \* the reports table: a set of report rows
  call             \* a call of a pure function: its arguments and its result

docVars == <<documents, nextDocId, documentChunks, proc, response, del>>

agentVars == <<run, llmLog, ownerNotifications, outcome>>

chatVars == <<conversations, messages, reports>>

\* No pure function is being called.
NoCall == [op |-> "none", pc |-> "idle"]

\* No conversation, message or report exists.
ChatInit ==
  /\ conversations = << >>
  /\ messages = {}
  /\ reports = {}

\* The background task before documents.upload has started it.
NoProc ==
  [ pc        |-> "none",
    userId    |-> 0,
    fileType  |-> "none",
    text      |-> None,
    pageCount |-> None,
    caught    |-> "none",
    thrown    |-> "none",
    rejected  |-> "none" ]

DocInit ==
  /\ documents = [d \in DocIds |-> None]
  /\ nextDocId = 1
  /\ documentChunks = {}
  /\ proc = [d \in DocIds |-> NoProc]
  /\ response = [d \in DocIds |-> None]
  /\ del = None

\* ------------------------------------------------------- documents.upload

\* A rejection of the background task that reaches the caller of upload.
BackgroundRejectionSurfaces(resp, err) == [resp EXCEPT !.error = err]

\* The .catch at the end of the promise chain documents.upload starts: the
\* rejection is logged; what upload gave its caller is left as it is.
BackgroundRejection(resp, err) == resp

\* documents.upload: the row is created as pending, processDocumentWithLLM is
\* started without being awaited, and the created row is returned.
Upload(u, ft) ==
  /\ nextDocId <= MaxDocs
  /\ LET d   == nextDocId
         row == NewDocument(u, ft)
     IN  /\ documents' = [documents EXCEPT ![d] = Some(row)]
         /\ proc' = [proc EXCEPT ![d] =
                       [NoProc EXCEPT !.pc = "setProcessing", !.userId = u, !.fileType = ft]]
         /\ response' = [response EXCEPT ![d] = Some([error |-> "none", document |-> row])]
  /\ nextDocId' = nextDocId + 1
  /\ UNCHANGED <<documentChunks, del>>
  /\ UNCHANGED <<agentVars, chatVars, call>>

\* ------------------------------------------------- processDocumentWithLLM

\* An exception inside the try block: control goes to the catch block, and
\* the block's locals are gone.
Raise(d, err) ==
  proc' = [proc EXCEPT ![d].pc = "catch", ![d].caught = err,
                       ![d].text = None, ![d].pageCount = None]

\* await updateDocumentStatus(documentId, "processing")
SetProcessing(d) ==
  /\ proc[d].pc = "setProcessing"
  /\ \/ /\ documents' = updateDocumentStatus(documents, d, "processing", None, None)
        /\ proc' = [proc EXCEPT ![d].pc = "extract"]
     \/ /\ Raise(d, "setProcessing")
        /\ UNCHANGED documents
  /\ UNCHANGED <<nextDocId, documentChunks, response, del>>
  /\ UNCHANGED <<agentVars, chatVars, call>>

\* The extraction (invokeLLM for pdf and docx, fetch for txt) and the page
\* count.  The model's message content can be a string or missing; a missing
\* content makes extractedText undefined, on which extractedText.match (pdf)
\* or text.length in splitIntoChunks (docx) raises a TypeError.
Extract(d) ==
  /\ proc[d].pc = "extract"
  /\ \/ \E t \in ExtractedTexts(proc[d].fileType) :
          proc' = [proc EXCEPT ![d].pc = "persistChunks",
                               ![d].text = Some(t),
                               ![d].pageCount = PageCountOf(proc[d].fileType, t)]
     \/ Raise(d, "extraction")
     \/ /\ proc[d].fileType \in {"pdf", "docx"}
        /\ Raise(d, "chunking")
  /\ UNCHANGED <<documents, nextDocId, documentChunks, response, del>>
  /\ UNCHANGED <<agentVars, chatVars, call>>

\* createDocumentChunks(chunks): nothing for an empty list, else one INSERT of
\* all the rows.
createDocumentChunks(table, chunks) == table \cup chunks

\* await createDocumentChunks(chunkRecords)
PersistChunks(d) ==
  /\ proc[d].pc = "persistChunks"
  /\ LET chunkRecords ==
           ChunkRecords(d, proc[d].userId, proc[d].text.val, proc[d].pageCount)
     IN  \/ /\ documentChunks' = createDocumentChunks(documentChunks, chunkRecords)
            /\ proc' = [proc EXCEPT ![d].pc = "setCompleted"]
         \/ /\ chunkRecords # {}
            /\ Raise(d, "persistChunks")
            /\ UNCHANGED documentChunks
  /\ UNCHANGED <<documents, nextDocId, response, del>>
  /\ UNCHANGED <<agentVars, chatVars, call>>

\* await updateDocumentStatus(documentId, "completed", extractedText, pageCount)
SetCompleted(d) ==
  /\ proc[d].pc = "setCompleted"
  /\ \/ /\ documents' = updateDocumentStatus(documents, d, "completed",
                                             proc[d].text, proc[d].pageCount)
        /\ proc' = [proc EXCEPT ![d].pc = "analyze"]
     \/ /\ Raise(d, "setCompleted")
        /\ UNCHANGED documents
  /\ UNCHANGED <<nextDocId, documentChunks, response, del>>
  /\ UNCHANGED <<agentVars, chatVars, call>>

\* A catch block that leaves the document in processing.
CatchStatusProcessing == "processing"

\* The status the catch block writes.
CatchStatus == "failed"

\* catch (error) { await updateDocumentStatus(documentId, "failed"); throw error }
\* When the write itself raises, its exception is the one that leaves.
Catch(d) ==
  /\ proc[d].pc = "catch"
  /\ \/ /\ documents' = updateDocumentStatus(documents, d, CatchStatus, None, None)
        /\ proc' = [proc EXCEPT ![d].pc = "rejected",
                               ![d].thrown = proc[d].caught,
                               ![d].rejected = proc[d].caught]
     \/ /\ proc' = [proc EXCEPT ![d].pc = "rejected",
                               ![d].thrown = "setFailed",
                               ![d].rejected = "setFailed"]
        /\ UNCHANGED documents
  /\ UNCHANGED <<nextDocId, documentChunks, response, del>>
  /\ UNCHANGED <<agentVars, chatVars, call>>

\* The .then callback of documents.upload: analyzeDocumentMetadata, then
\* notifyOwner for a special_provisions or cpm_schedule document.  Either
\* call can reject.
Analyze(d) ==
  /\ proc[d].pc = "analyze"
  /\ \/ proc' = [proc EXCEPT ![d].pc = "done", ![d].text = None, ![d].pageCount = None]
     \/ \E err \in {"analyzeMetadata", "notifyOwner"} :
          proc' = [proc EXCEPT ![d].pc = "rejected", ![d].rejected = err,
                               ![d].text = None, ![d].pageCount = None]
  /\ UNCHANGED <<documents, nextDocId, documentChunks, response, del>>
  /\ UNCHANGED <<agentVars, chatVars, call>>

\* .catch(err => console.error(...))
Rejected(d) ==
  /\ proc[d].pc = "rejected"
  /\ response' = [response EXCEPT ![d] =
                    Some(BackgroundRejection(@.val, proc[d].rejected))]
  /\ proc' = [proc EXCEPT ![d].pc = "done"]
  /\ UNCHANGED <<documents, nextDocId, documentChunks, del>>
  /\ UNCHANGED <<agentVars, chatVars, call>>

\* ---------------------------------------------------------- deleteDocument

\* documents.delete: deleteDocument(input.id, ctx.user.id) is called.
DeleteStart(u, id) ==
  /\ ~del.some
  /\ del' = Some([id |-> id, userId |-> u, pc |-> "chunks"])
  /\ UNCHANGED <<documents, nextDocId, documentChunks, proc, response>>
  /\ UNCHANGED <<agentVars, chatVars, call>>

\* db.delete(documentChunks).where(eq(documentChunks.documentId, id))
DeleteChunksWhere(table, id, userId) == {c \in table : c.documentId # id}

\* The first statement of deleteDocument.
DeleteChunks ==
  /\ del.some
  /\ del.val.pc = "chunks"
  /\ documentChunks' = DeleteChunksWhere(documentChunks, del.val.id, del.val.userId)
  /\ del' = Some([del.val EXCEPT !.pc = "row"])
  /\ UNCHANGED <<documents, nextDocId, proc, response>>
  /\ UNCHANGED <<agentVars, chatVars, call>>

\* db.delete(documents).where(and(eq(documents.id, id), eq(documents.userId,
\* userId))): the rows the second statement of deleteDocument deletes.
DeleteRowWhere(docs, id, userId) ==
  IF docs[id].some /\ docs[id].val.userId = userId
  THEN [docs EXCEPT ![id] = None]
  ELSE docs

\* The value deleteDocument returns: affectedRows > 0.
DeleteResult(docs, id, userId) == DeleteRowWhere(docs, id, userId) # docs

\* The second statement of deleteDocument, and its return.
DeleteRow ==
  /\ del.some
  /\ del.val.pc = "row"
  /\ documents' = DeleteRowWhere(documents, del.val.id, del.val.userId)
  /\ del' = None
  /\ UNCHANGED <<nextDocId, documentChunks, proc, response>>
  /\ UNCHANGED <<agentVars, chatVars, call>>

DocNext ==
  \/ \E u \in Uploaders, ft \in FileTypes : Upload(u, ft)
  \/ \E d \in DocIds : SetProcessing(d)
  \/ \E d \in DocIds : Extract(d)
  \/ \E d \in DocIds : PersistChunks(d)
  \/ \E d \in DocIds : SetCompleted(d)
  \/ \E d \in DocIds : Catch(d)
  \/ \E d \in DocIds : Analyze(d)
  \/ \E d \in DocIds : Rejected(d)
  \/ \E u \in Users, id \in DocIds : DeleteStart(u, id)
  \/ DeleteChunks
  \/ DeleteRow

\* ------------------------------------------------------------ agent: text

UpperCase ==
  << "A", "B", "C", "D", "E", "F", "G", "H", "I", "J", "K", "L", "M",
     "N", "O", "P", "Q", "R", "S", "T", "U", "V", "W", "X", "Y", "Z" >>

LowerCase ==
  << "a", "b", "c", "d", "e", "f", "g", "h", "i", "j", "k", "l", "m",
     "n", "o", "p", "q", "r", "s", "t", "u", "v", "w", "x", "y", "z" >>

\* String.prototype.toLowerCase().
toLowerCase(text) ==
  [ i \in 1..Len(text) |->
      IF \E k \in 1..Len(UpperCase) : UpperCase[k] = text[i]
      THEN LowerCase[CHOOSE k \in 1..Len(UpperCase) : UpperCase[k] = text[i]]
      ELSE text[i] ]

\* The first index >= i of text (1-based) that holds no whitespace, or
\* Len(text) + 1.
SkipWhitespace(text, i) ==
  LET rest == {j \in i..Len(text) : text[j] \notin Whitespace}
  IN  IF rest = {} THEN Len(text) + 1 ELSE SetMin(rest)

\* String.prototype.split(/\s+/) from 1-based index i with the piece cur in
\* progress: a run of whitespace ends a piece, so whitespace at either end of
\* the text, and the empty text, give an empty piece.
RECURSIVE SplitFrom(_, _, _)
SplitFrom(text, i, cur) ==
  IF i > Len(text) THEN << cur >>
  ELSE IF text[i] \in Whitespace
       THEN << cur >> \o SplitFrom(text, SkipWhitespace(text, i), << >>)
       ELSE SplitFrom(text, i + 1, Append(cur, text[i]))

SplitWhitespace(text) == SplitFrom(text, 1, << >>)

\* String.prototype.includes(term).
Includes(text, term) == IndexOf(text, term) >= 0

\* Array.prototype.join(sep) of texts.
RECURSIVE Join(_, _)
Join(texts, sep) ==
  IF Len(texts) = 0 THEN << >>
  ELSE IF Len(texts) = 1 THEN texts[1]
  ELSE texts[1] \o sep \o Join(Tail(texts), sep)

\* String.prototype.replace(/_/g, ' ').
ReplaceUnderscores(text) ==
  [i \in 1..Len(text) |-> IF text[i] = "_" THEN " " ELSE text[i]]

\* The text a template literal puts in for a value: "undefined" for a missing
\* one.
Interpolate(opt) ==
  IF opt.some THEN opt.val
  ELSE <<"u", "n", "d", "e", "f", "i", "n", "e", "d">>

\* A slice that keeps every element.
TakeAll(s, n) == s

\* Array.prototype.slice(0, n).
Take(s, n) == SubSeq(s, 1, Min(n, Len(s)))

\* --------------------------------------------------- agent: store reads

\* The ids of a set, largest first.
RECURSIVE DescendingIds(_)
DescendingIds(ids) ==
  IF ids = {} THEN << >>
  ELSE << SetMax(ids) >> \o DescendingIds(ids \ {SetMax(ids)})

\* getDocumentsByUserId: the user's rows, newest first (ids are assigned in
\* creation order).
getDocumentsByUserId(docs, userId) ==
  LET ids   == {id \in DOMAIN docs : docs[id].some /\ docs[id].val.userId = userId}
      order == DescendingIds(ids)
  IN  [ i \in 1..Len(order) |->
          [ id           |-> order[i],
            originalName |-> docs[order[i]].val.originalName,
            documentType |-> docs[order[i]].val.documentType,
            pageCount    |-> docs[order[i]].val.pageCount ] ]

\* ORDER BY documentId, chunkIndex.
ChunkBefore(c, d) ==
  \/ c.documentId < d.documentId
  \/ c.documentId = d.documentId /\ c.chunkIndex <= d.chunkIndex

RECURSIVE ChunksInOrder(_)
ChunksInOrder(rows) ==
  IF rows = {} THEN << >>
  ELSE LET first == CHOOSE c \in rows : \A d \in rows : ChunkBefore(c, d)
       IN  << first >> \o ChunksInOrder(rows \ {first})

\* The user's chunks from the last to the first.
ChunksLastFirst(table, userId) ==
  LET inOrder == ChunksInOrder({c \in table : c.userId = userId})
  IN  [i \in 1..Len(inOrder) |-> inOrder[Len(inOrder) + 1 - i]]

\* getChunksByUserDocuments(userId): the user's chunks ordered by documentId,
\* then chunkIndex.
getChunksByUserDocuments(table, userId) ==
  ChunksInOrder({c \in table : c.userId = userId})

\* ------------------------------------------------- agent: searchDocuments

\* .slice(0, 10)
SEARCH_LIMIT == 10

\* .substring(0, 200)
EXCERPT_LENGTH == 200

Ellipsis == <<".", ".", ".">>

\* chunk.content.substring(0, 200) + (chunk.content.length > 200 ? "..." : "")
Excerpt(content) ==
  Slice(content, 0, EXCERPT_LENGTH)
    \o (IF Len(content) > EXCERPT_LENGTH THEN Ellipsis ELSE << >>)

\* The citation searchDocuments builds for a matching chunk.
CitationOf(userDocuments, chunk) ==
  LET found == {i \in 1..Len(userDocuments) : userDocuments[i].id = chunk.documentId}
  IN  [ documentId   |-> chunk.documentId,
        documentName |-> IF found = {} THEN "Unknown Document"
                         ELSE userDocuments[SetMin(found)].originalName,
        pageNumber   |-> chunk.pageNumber,
        section      |-> chunk.sectionTitle,
        excerpt      |-> Excerpt(chunk.content) ]

\* A filter that does not look at the chunk's document.
ChunkMatchesAnyDocument(chunk, relevantDocIds, queryTerms) ==
  \E k \in 1..Len(queryTerms) :
    Includes(toLowerCase(chunk.content), queryTerms[k])

\* The chunk passes the filter of searchDocuments.
ChunkMatches(chunk, relevantDocIds, queryTerms) ==
  /\ chunk.documentId \in relevantDocIds
  /\ \E k \in 1..Len(queryTerms) :
       Includes(toLowerCase(chunk.content), queryTerms[k])

\* searchDocuments(userId, query, documentTypes?): documentTypes is None or
\* Some(sequence of type names).
searchDocuments(docs, table, userId, query, documentTypes) ==
  LET userDocuments == getDocumentsByUserId(docs, userId)
      chunks        == getChunksByUserDocuments(table, userId)
      Relevant(d)   ==
        IF documentTypes.some /\ Len(documentTypes.val) > 0
        THEN \E k \in 1..Len(documentTypes.val) : documentTypes.val[k] = d.documentType
        ELSE TRUE
      relevantDocIds ==
        {userDocuments[i].id : i \in {j \in 1..Len(userDocuments) : Relevant(userDocuments[j])}}
      queryTerms     == SplitWhitespace(toLowerCase(query))
      matchingChunks ==
        Take(SelectSeq(chunks, LAMBDA c : ChunkMatches(c, relevantDocIds, queryTerms)),
             SEARCH_LIMIT)
  IN  [ i \in 1..Len(matchingChunks) |->
          [ content  |-> matchingChunks[i].content,
            citation |-> CitationOf(userDocuments, matchingChunks[i]) ] ]

\* ----------------------------------------------- agent: executeCalculation

Digit == <<"0", "1", "2", "3", "4", "5", "6", "7", "8", "9">>

\* String(n) for n >= 0.
RECURSIVE DecimalDigits(_)
DecimalDigits(n) ==
  IF n < 10 THEN << Digit[n + 1] >>
  ELSE DecimalDigits(n \div 10) \o << Digit[(n % 10) + 1] >>

\* A number m * 10^e, times pi when pi is set; e <= 0 and m has no trailing
\* zero that e could take up.
RECURSIVE Number(_, _, _)
Number(m, e, pi) ==
  IF m = 0 THEN [m |-> 0, e |-> 0, pi |-> pi]
  ELSE IF e < 0 /\ m % 10 = 0 THEN Number(m \div 10, e + 1, pi)
  ELSE [m |-> m, e |-> e, pi |-> pi]

\* The number of an integer.
Whole(n) == Number(n, 0, FALSE)

\* a * b.
Times(a, b) == Number(a.m * b.m, a.e + b.e, a.pi \/ b.pi)

\* Math.PI
PI == Number(1, 0, TRUE)

\* The conversion factors, by category, in the order of the table.
UNIT_CONVERSIONS ==
  << [ ft_to_m      |-> Number(3048, -4, FALSE),
       m_to_ft      |-> Number(328084, -5, FALSE),
       in_to_cm     |-> Number(254, -2, FALSE),
       cm_to_in     |-> Number(393701, -6, FALSE),
       yd_to_m      |-> Number(9144, -4, FALSE),
       m_to_yd      |-> Number(109361, -5, FALSE) ],
     [ sqft_to_sqm  |-> Number(92903, -6, FALSE),
       sqm_to_sqft  |-> Number(107639, -4, FALSE),
       sqyd_to_sqm  |-> Number(836127, -6, FALSE),
       sqm_to_sqyd  |-> Number(119599, -5, FALSE),
       acre_to_sqm  |-> Number(404686, -2, FALSE),
       sqm_to_acre  |-> Number(247105, -9, FALSE) ],
     [ cuft_to_cum  |-> Number(283168, -7, FALSE),
       cum_to_cuft  |-> Number(353147, -4, FALSE),
       cuyd_to_cum  |-> Number(764555, -6, FALSE),
       cum_to_cuyd  |-> Number(130795, -5, FALSE),
       gal_to_l     |-> Number(378541, -5, FALSE),
       l_to_gal     |-> Number(264172, -6, FALSE) ],
     [ lb_to_kg     |-> Number(453592, -6, FALSE),
       kg_to_lb     |-> Number(220462, -5, FALSE),
       ton_to_kg    |-> Number(907185, -3, FALSE),
       kg_to_ton    |-> Number(110231, -8, FALSE),
       tonne_to_kg  |-> Number(1000, 0, FALSE),
       kg_to_tonne  |-> Number(1, -3, FALSE) ] >>

\* The loop over the categories: the factor of the first category that holds
\* the key, None when no category does.
Factor(conversionKey) ==
  LET holding == {k \in 1..Len(UNIT_CONVERSIONS) : conversionKey \in DOMAIN UNIT_CONVERSIONS[k]}
  IN  IF holding = {} THEN None
      ELSE Some(UNIT_CONVERSIONS[SetMin(holding)][conversionKey])

\* input[f] of a parsed JSON object: None for a missing field.
Field(input, f) == IF f \in DOMAIN input THEN Some(input[f]) ELSE None

\* values.f is truthy: present and not 0.
Truthy(values, f) == f \in DOMAIN values /\ values[f] # 0

\* A string field of the input is truthy: present and not empty.
TruthyString(input, f) == f \in DOMAIN input /\ input[f] # ""

\* The same for a string kept as its characters.
TruthyText(input, f) == f \in DOMAIN input /\ Len(input[f]) > 0

\* { error: message }; the message is kept as its pieces.
CalcError(message) == [error |-> message]

\* The success value of executeCalculation; the explanation is kept as the
\* formula's name, its operands and its unit.
CalcResult(input, name, operands, result, unit) ==
  [ result           |-> result,
    explanation      |-> [formula |-> name, operands |-> operands,
                          result |-> result, unit |-> unit],
    calculation_type |-> input.calculation_type,
    input_values     |-> input.values ]

\* The characters of the names that values has.
KeyText ==
  [ a      |-> <<"a">>,
    b      |-> <<"b">>,
    area   |-> <<"a", "r", "e", "a">>,
    depth  |-> <<"d", "e", "p", "t", "h">>,
    length |-> <<"l", "e", "n", "g", "t", "h">>,
    width  |-> <<"w", "i", "d", "t", "h">> ]

\* Object.entries(values): the names of values in the order of the JSON text,
\* which the input carries as entries when values has more than one name.
Entries(input) ==
  IF "entries" \in DOMAIN input THEN input.entries
  ELSE IF DOMAIN input.values = {} THEN << >>
  ELSE << CHOOSE k \in DOMAIN input.values : TRUE >>

\* text.replace(new RegExp(key, 'g'), by) for a key of letters: every
\* occurrence from left to right, from 0-based index i on.
RECURSIVE ReplaceAll(_, _, _, _)
ReplaceAll(text, key, by, i) ==
  IF i >= Len(text) THEN << >>
  ELSE IF MatchAt(text, key, i)
       THEN by \o ReplaceAll(text, key, by, i + Len(key))
       ELSE << text[i + 1] >> \o ReplaceAll(text, key, by, i + 1)

\* The loop over the entries, from entry k on: each name is replaced by its
\* value in the text the earlier replacements have left.
RECURSIVE Substitute(_, _, _, _)
Substitute(text, values, entries, k) ==
  IF k > Len(entries) THEN text
  ELSE Substitute(ReplaceAll(text, KeyText[entries[k]], DecimalDigits(values[entries[k]]), 0),
                  values, entries, k + 1)

\* The value of a decimal digit.
DigitValue(ch) == (CHOOSE k \in 1..Len(Digit) : Digit[k] = ch) - 1

IsDigit(ch) == \E k \in 1..Len(Digit) : Digit[k] = ch

\* The tokens of an expression from 1-based index i on, n being the literal in
\* progress (-1 for none): a literal, the operator *, or a letter; spaces
\* separate tokens.
RECURSIVE Tokens(_, _, _)
Tokens(text, i, n) ==
  LET literal == IF n >= 0 THEN << [kind |-> "literal", value |-> n] >> ELSE << >>
  IN  IF i > Len(text) THEN literal
      ELSE IF IsDigit(text[i])
           THEN Tokens(text, i + 1, (IF n >= 0 THEN 10 * n ELSE 0) + DigitValue(text[i]))
      ELSE IF text[i] = " " THEN literal \o Tokens(text, i + 1, -1)
      ELSE IF text[i] = "*"
           THEN literal \o << [kind |-> "times", value |-> 0] >> \o Tokens(text, i + 1, -1)
      ELSE literal \o << [kind |-> "name", value |-> 0] >> \o Tokens(text, i + 1, -1)

\* The tokens are literals with one * between each two.
IsProduct(tokens) ==
  /\ Len(tokens) % 2 = 1
  /\ \A k \in 1..Len(tokens) :
       tokens[k].kind = (IF k % 2 = 1 THEN "literal" ELSE "times")

RECURSIVE ProductOf(_)
ProductOf(tokens) ==
  IF Len(tokens) = 0 THEN 1
  ELSE (IF tokens[1].kind = "literal" THEN tokens[1].value ELSE 1)
         * ProductOf(Tail(tokens))

\* Function(`"use strict"; return (${evalFormula})`)() for an expression of
\* decimal literals, names that no binding exists for, single * operators
\* and spaces: a product of literals gives its value; anything else raises
\* (a SyntaxError for a malformed expression, a ReferenceError for a name).
Evaluate(evalFormula) ==
  LET tokens == Tokens(evalFormula, 1, -1)
  IN  IF IsProduct(tokens) THEN Some(ProductOf(tokens)) ELSE None

\* The body of the try block of the custom case: None when it raises
\* (Object.entries of a missing values raises a TypeError).
CustomEvaluation(input) ==
  IF "values" \notin DOMAIN input THEN None
  ELSE Evaluate(Substitute(input.formula, input.values, Entries(input), 1))

\* An exception of the try block leaves it: the catch clause takes every one.
CustomEvaluationThrows(input) == FALSE

\* The calculation type reads a field of values outside a try block.
ReadsValues(input) ==
  /\ "calculation_type" \in DOMAIN input
  /\ \/ input.calculation_type \in {"area", "volume", "linear", "weight"}
     \/ /\ input.calculation_type = "conversion"
        /\ TruthyString(input, "unit_from")
        /\ TruthyString(input, "unit_to")

\* A try block without a catch clause that takes the exception.
executeCalculationThrowsUncaught(input) ==
  \/ ReadsValues(input) /\ "values" \notin DOMAIN input
  \/ /\ "calculation_type" \in DOMAIN input
     /\ input.calculation_type = "custom"
     /\ TruthyText(input, "formula")
     /\ ~CustomEvaluation(input).some

\* executeCalculation raises: a TypeError when values is missing and is read.
executeCalculationThrows(input) ==
  \/ ReadsValues(input) /\ "values" \notin DOMAIN input
  \/ /\ "calculation_type" \in DOMAIN input
     /\ input.calculation_type = "custom"
     /\ TruthyText(input, "formula")
     /\ CustomEvaluationThrows(input)

\* executeCalculation(input); values are integers >= 0.
executeCalculation(input) ==
  LET type == Field(input, "calculation_type")
      v    == input.values
      Of(f) == Whole(v[f])
  IN  CASE ~type.some ->
             CalcError(<<"Unknown calculation type: ", "undefined">>)
        [] type.val = "area" ->
             IF Truthy(v, "length") /\ Truthy(v, "width")
             THEN CalcResult(input, "Area", <<v.length, v.width>>,
                             Times(Of("length"), Of("width")), "square units")
             ELSE IF Truthy(v, "radius")
             THEN CalcResult(input, "Area = pi", <<v.radius>>,
                             Times(Times(PI, Of("radius")), Of("radius")), "square units")
             ELSE CalcError(<<"Missing required values for area calculation (length/width or radius)">>)
        [] type.val = "volume" ->
             IF Truthy(v, "length") /\ Truthy(v, "width") /\ Truthy(v, "height")
             THEN CalcResult(input, "Volume", <<v.length, v.width, v.height>>,
                             Times(Times(Of("length"), Of("width")), Of("height")), "cubic units")
             ELSE IF Truthy(v, "area") /\ Truthy(v, "depth")
             THEN CalcResult(input, "Volume", <<v.area, v.depth>>,
                             Times(Of("area"), Of("depth")), "cubic units")
             ELSE CalcError(<<"Missing required values for volume calculation">>)
        [] type.val = "linear" ->
             IF Truthy(v, "quantity") /\ Truthy(v, "unit_length")
             THEN CalcResult(input, "Total length", <<v.quantity, v.unit_length>>,
                             Times(Of("quantity"), Of("unit_length")), "linear units")
             ELSE CalcError(<<"Missing required values for linear calculation">>)
        [] type.val = "weight" ->
             IF Truthy(v, "volume") /\ Truthy(v, "density")
             THEN CalcResult(input, "Weight", <<v.volume, v.density>>,
                             Times(Of("volume"), Of("density")), "weight units")
             ELSE IF Truthy(v, "quantity") /\ Truthy(v, "unit_weight")
             THEN CalcResult(input, "Total weight", <<v.quantity, v.unit_weight>>,
                             Times(Of("quantity"), Of("unit_weight")), "weight units")
             ELSE CalcError(<<"Missing required values for weight calculation">>)
        [] type.val = "conversion" ->
             IF TruthyString(input, "unit_from") /\ TruthyString(input, "unit_to")
                  /\ "value" \in DOMAIN v
             THEN LET factor == Factor(input.unit_from \o "_to_" \o input.unit_to)
                  IN  IF factor.some
                      THEN CalcResult(input, input.unit_from, <<v.value>>,
                                      Times(Of("value"), factor.val), input.unit_to)
                      ELSE CalcError(<<"Conversion from ", input.unit_from, " to ",
                                       input.unit_to, " not supported">>)
             ELSE CalcError(<<"Missing required values for conversion (value, unit_from, unit_to)">>)
        [] type.val = "custom" ->
             IF TruthyText(input, "formula")
             THEN LET value == CustomEvaluation(input)
                  IN  IF value.some
                      THEN CalcResult(input, "Custom calculation", << >>,
                                      Whole(value.val), "")
                      ELSE CalcError(<<"Invalid formula or values">>)
             ELSE CalcError(<<"Custom calculation requires a formula">>)
        [] OTHER ->
             CalcError(<<"Unknown calculation type: ", type.val>>)

\* ------------------------------------------------------- agent: tool calls

\* JSON.parse(toolCall.function.arguments) raises a SyntaxError.
JSONParseThrows(arguments) == arguments.json = "invalid"

\* JSON.parse(toolCall.function.arguments), a JSON object.
JSONParse(arguments) == arguments.value

\* JSON.stringify(value) of a defined value.
JSONStringify(value) == [json |-> "text", of |-> value]

\* The case of the switch raises a TypeError on a field the input lacks:
\* query.toLowerCase(), values.length, report_type.replace(), the iteration
\* of topics.
ToolInputThrows(toolName, toolInput) ==
  \/ toolName = "search_documents" /\ "query" \notin DOMAIN toolInput
  \/ toolName = "calculate_quantity" /\ executeCalculationThrows(toolInput)
  \/ toolName = "generate_report" /\ "report_type" \notin DOMAIN toolInput
  \/ toolName = "detect_conflicts" /\ "topics" \notin DOMAIN toolInput

Search(query, documentTypes) == [query |-> query, documentTypes |-> documentTypes]

Space == <<" ">>

ScheduleQuery(toolInput) ==
  <<"s", "c", "h", "e", "d", "u", "l", "e", " ">>
    \o Interpolate(Field(toolInput, "analysis_type"))
    \o <<" ", "t", "i", "m", "e", "l", "i", "n", "e", " ",
         "m", "i", "l", "e", "s", "t", "o", "n", "e">>

SpecificationQuery(toolInput) ==
  Interpolate(Field(toolInput, "spec_type"))
    \o <<" ", "s", "p", "e", "c", "i", "f", "i", "c", "a", "t", "i", "o", "n", " ">>
    \o Join(IF "attributes" \in DOMAIN toolInput THEN toolInput.attributes ELSE << >>,
            Space)

\* The searchDocuments calls the case of the switch makes, in order.
ToolSearches(toolName, toolInput) ==
  CASE toolName = "search_documents" ->
         << Search(toolInput.query, Field(toolInput, "document_types")) >>
    [] toolName = "analyze_schedule" ->
         << Search(ScheduleQuery(toolInput), Some(<<"cpm_schedule">>)) >>
    [] toolName = "generate_report" ->
         << Search(ReplaceUnderscores(toolInput.report_type), None) >>
    [] toolName = "detect_conflicts" ->
         [i \in 1..Len(toolInput.topics) |-> Search(toolInput.topics[i], None)]
    [] toolName = "extract_specifications" ->
         << Search(SpecificationQuery(toolInput), None) >>
    [] OTHER -> << >>

\* The result of each of those calls.
SearchResults(docs, table, userId, toolName, toolInput) ==
  LET searches == ToolSearches(toolName, toolInput)
  IN  [ i \in 1..Len(searches) |->
          searchDocuments(docs, table, userId,
                          searches[i].query, searches[i].documentTypes) ]

\* chunks.map(c => ({ content: c.content, source: c.citation }))
Sources(chunks) ==
  [i \in 1..Len(chunks) |-> [content |-> chunks[i].content, source |-> chunks[i].citation]]

\* The citations of the results, in order (citations.push for each chunk).
RECURSIVE CitationsOf(_)
CitationsOf(results) ==
  IF Len(results) = 0 THEN << >>
  ELSE [i \in 1..Len(results[1]) |-> results[1][i].citation]
         \o CitationsOf(Tail(results))

\* toolOutput of the case of the switch.
ToolOutput(toolName, toolInput, results) ==
  CASE toolName = "search_documents" ->
         [ found |-> Len(results[1]), results |-> Sources(results[1]) ]
    [] toolName = "calculate_quantity" -> executeCalculation(toolInput)
    [] toolName = "analyze_schedule" ->
         [ analysis_type |-> Field(toolInput, "analysis_type"),
           found_items   |-> Len(results[1]),
           schedule_data |-> Sources(results[1]) ]
    [] toolName = "generate_report" ->
         [ report_type     |-> toolInput.report_type,
           sections_found  |-> Len(results[1]),
           content_sources |-> Sources(results[1]) ]
    [] toolName = "detect_conflicts" ->
         [ topics_analyzed     |-> toolInput.topics,
           potential_conflicts |->
             [ i \in 1..Len(results) |->
                 [topic |-> toolInput.topics[i], sources |-> results[i]] ] ]
    [] toolName = "extract_specifications" ->
         [ spec_type            |-> Field(toolInput, "spec_type"),
           specifications_found |-> Len(results[1]),
           data                 |-> Sources(results[1]) ]
    [] OTHER -> [ error |-> <<"Unknown tool: ", toolName>> ]

\* conflictResults.some(r => r.sources.length > 1) in detect_conflicts.
NotifiesOwner(toolName, results) ==
  /\ toolName = "detect_conflicts"
  /\ \E i \in 1..Len(results) : Len(results[i]) > 1

\* The tool awaits a store read (searchDocuments).
ReadsStore(toolName, toolInput) == Len(ToolSearches(toolName, toolInput)) > 0

\* ------------------------------------------------- agent: message content

\* A message content: a string, null, undefined (the field is missing) or an
\* array of content parts.
Content(type, text) == [type |-> type, text |-> text]

Undefined == Content("undefined", "")

AnswerText == "The specified strength is 4000 psi."

\* JSON.stringify of the array of parts [{ type: "text", text: AnswerText }].
AnswerPartsJSON == "[{\"type\":\"text\",\"text\":\"The specified strength is 4000 psi.\"}]"

\* typeof content === 'string' ? content : JSON.stringify(content)
ContentText(content) ==
  CASE content.type = "string" -> content
    [] content.type = "null"   -> Content("string", "null")
    [] content.type = "parts"  -> Content("string", AnswerPartsJSON)
    [] OTHER                   -> Undefined

FALLBACK_CONTENT ==
  Content("string",
    "I apologize, but I encountered an error processing your request. Please try again.")

\* ----------------------------------------------------- agent: citations

\* c.documentId + c.excerpt: the number is converted and the two are joined.
CitationKey(c) == DecimalDigits(c.documentId) \o c.excerpt

\* citations.forEach(c => citationMap.set(key, c));
\* Array.from(citationMap.values()): one entry per key, at the position of the
\* key's first citation, holding the key's last citation.
DedupeCitations(citations) ==
  LET n        == Len(citations)
      First(i) == \A j \in 1..(i - 1) : CitationKey(citations[j]) # CitationKey(citations[i])
      Last(i)  == SetMax({j \in 1..n : CitationKey(citations[j]) = CitationKey(citations[i])})
      firsts   == SelectSeq([i \in 1..n |-> i], First)
  IN  [k \in 1..Len(firsts) |-> citations[Last(firsts[k])]]

\* ------------------------------------------------- agent: the collaborator

\* Number of tool calls in one assistant message.
MaxToolCalls == 2

ToolCall(name, arguments) == [id |-> "call_1", name |-> name, arguments |-> arguments]

Args(value) == [json |-> "object", value |-> value]

InvalidArgs == [json |-> "invalid"]

Concrete == <<"c", "o", "n", "c", "r", "e", "t", "e">>

\* The tool calls an assistant message is made of.
ToolCallMenu ==
  { ToolCall("search_documents", Args([query |-> Concrete])),
    ToolCall("search_documents",
             Args([query |-> Concrete, document_types |-> <<"cpm_schedule">>])),
    ToolCall("search_documents", Args([limit |-> 5])),
    ToolCall("search_documents", InvalidArgs),
    ToolCall("calculate_quantity",
             Args([calculation_type |-> "area", values |-> [length |-> 4, width |-> 5]])),
    ToolCall("calculate_quantity", Args([calculation_type |-> "area"])),
    ToolCall("analyze_schedule",
             Args([analysis_type |-> <<"m", "i", "l", "e", "s", "t", "o", "n", "e", "s">>])),
    ToolCall("generate_report",
             Args([report_type |-> <<"c", "o", "n", "c", "r", "e", "t", "e", "_",
                                     "s", "u", "m", "m", "a", "r", "y">>])),
    ToolCall("detect_conflicts", Args([topics |-> << Concrete >>])),
    ToolCall("extract_specifications", Args([spec_type |-> Concrete])),
    ToolCall("lookup_weather", Args([city |-> "Austin"])) }

\* toolCall.id: the collaborator gives each call of a message its own id.
CallId(i) == "call_" \o ToString(i)

ToolCallLists ==
  UNION { { [i \in 1..n |-> [calls[i] EXCEPT !.id = CallId(i)]] :
              calls \in [1..n -> ToolCallMenu] } : n \in 1..MaxToolCalls }

AssistantMessage(content, tool_calls) == [content |-> content, tool_calls |-> tool_calls]

\* An assistant message that requests no tool: tool_calls is missing or empty.
DirectMessages ==
  { AssistantMessage(c, t) :
      c \in { Content("string", AnswerText), Content("null", ""),
              Content("parts", AnswerText), Undefined },
      t \in { None, Some(<< >>) } }

\* An assistant message that requests tools.
ToolMessages ==
  { AssistantMessage(Content("null", ""), Some(calls)) : calls \in ToolCallLists }

\* The assistant messages the second invocation can answer with; it may ask
\* for tools again.
FinalMessages ==
  { AssistantMessage(c, t) :
      c \in { Content("string", AnswerText), Content("null", "") },
      t \in { None, Some(<< ToolCall("search_documents", Args([query |-> Concrete])) >>) } }

\* What invokeLLM resolves to: choices[0]?.message.
Response(message) == [kind |-> "response", message |-> message]

RequestsTools(message) ==
  message.tool_calls.some /\ Len(message.tool_calls.val) > 0

\* ------------------------------------------------------ agent: the stores

\* "500 psi is the minimum compressive strength of concrete fill."
TextFill ==
  << "5", "0", "0", " ", "p", "s", "i", " ", "i", "s", " ", "t", "h", "e", " ", "m",
     "i", "n", "i", "m", "u", "m", " ", "c", "o", "m", "p", "r", "e", "s", "s", "i",
     "v", "e", " ", "s", "t", "r", "e", "n", "g", "t", "h", " ", "o", "f", " ", "c",
     "o", "n", "c", "r", "e", "t", "e", " ", "f", "i", "l", "l", "." >>

\* "1500 psi is the minimum compressive strength of concrete fill."
TextFooting == <<"1">> \o TextFill

AgentDocIds == {1, 2, 3, 4, 41}

\* A document as processDocumentWithLLM leaves it after a successful run.
CompletedDocument(userId, fileType, originalName, documentType, text) ==
  [ NewDocument(userId, fileType) EXCEPT
      !.originalName     = originalName,
      !.documentType     = documentType,
      !.processingStatus = "completed",
      !.extractedText    = Some(text),
      !.pageCount        = PageCountOf(fileType, text) ]

\* The documents the stores of the agent are made of: two of user 1 that
\* hold the same sentence, one of user 2, and two of user 1 (ids 4 and 41)
\* whose texts differ in the first character only.
AgentDocuments ==
  [ d \in AgentDocIds |->
      CASE d = 1 -> CompletedDocument(1, "txt", "Concrete Specifications.txt",
                                      "specifications", TextSentence)
        [] d = 2 -> CompletedDocument(1, "pdf", "Special Provisions.pdf",
                                      "special_provisions", TextTwoPages)
        [] d = 3 -> CompletedDocument(2, "docx", "Bridge Schedule.docx",
                                      "cpm_schedule", TextSentence)
        [] d = 4 -> CompletedDocument(1, "txt", "Footing Notes.txt",
                                      "project_plans", TextFooting)
        [] OTHER -> CompletedDocument(1, "txt", "Fill Notes.txt",
                                      "standard_plans", TextFill) ]

\* The store that holds the documents `present`, processed to their chunks.
StoreOf(present) ==
  [ documents |-> [d \in AgentDocIds |->
                     IF d \in present THEN Some(AgentDocuments[d]) ELSE None],
    chunks    |-> UNION { ChunkRecords(d, AgentDocuments[d].userId,
                                       AgentDocuments[d].extractedText.val,
                                       AgentDocuments[d].pageCount) : d \in present } ]

\* The stores runAgent is run against: no document at all, one document of
\* each user, three documents, and documents 4 and 41.
AgentStores == { StoreOf({}), StoreOf({1, 3}), StoreOf({1, 2, 3}), StoreOf({4, 41}) }

\* The conversation, its messages and the report that exist while runAgent
\* runs.
AgentConversations == << Some([userId |-> 1, title |-> "Concrete"]) >>

AgentMessages ==
  { [id |-> 1, conversationId |-> 1, userId |-> 1, role |-> "user"],
    [id |-> 2, conversationId |-> 1, userId |-> 1, role |-> "assistant"] }

AgentReports ==
  { [id |-> 1, userId |-> 1, reportType |-> "requirements_summary"] }

\* "What are the concrete requirements?"
MessageConcrete ==
  << "W", "h", "a", "t", " ", "a", "r", "e", " ", "t", "h", "e", " ", "c", "o", "n",
     "c", "r", "e", "t", "e", " ", "r", "e", "q", "u", "i", "r", "e", "m", "e", "n",
     "t", "s", "?" >>

MessageHello == <<"H", "e", "l", "l", "o">>

UserMessages == { MessageConcrete, MessageHello }

\* ------------------------------------------------------- agent: runAgent

NoRun ==
  [ pc               |-> "idle",
    userId           |-> 0,
    userMessage      |-> << >>,
    messages         |-> << >>,
    assistantMessage |-> None,
    next             |-> 0,
    citations        |-> << >>,
    toolCalls        |-> << >>,
    toolResults      |-> << >> ]

AgentIdle ==
  /\ run = NoRun
  /\ llmLog = << >>
  /\ ownerNotifications = 0
  /\ outcome = None

\* runAgent is over: its locals are gone.
Ended == [NoRun EXCEPT !.pc = "done", !.userId = run.userId,
                       !.userMessage = run.userMessage]

\* return { content, citations, toolCalls }
Return(content, citations, toolCalls) ==
  /\ outcome' = Some([ kind |-> "returned", content |-> content,
                       citations |-> citations, toolCalls |-> toolCalls ])
  /\ run' = Ended

\* An exception leaves runAgent, which has no try block.
Throw(error) ==
  /\ outcome' = Some([kind |-> "thrown", error |-> error])
  /\ run' = Ended

\* An invokeLLM call and what it resolved to, or that it rejected.
Invocation(tools, sent, resolved) ==
  [tools |-> tools, messages |-> sent, response |-> resolved]

\* The system message: the prompt, which ends with the document context.
SystemMessage(userDocuments) ==
  [role |-> "system", documentContext |-> userDocuments]

\* runAgent(userId, userMessage) is called.
RunAgent(u, message) ==
  /\ run.pc = "idle"
  /\ run' = [run EXCEPT !.pc = "getDocuments", !.userId = u, !.userMessage = message]
  /\ UNCHANGED <<llmLog, ownerNotifications, outcome>>
  /\ UNCHANGED <<docVars, chatVars, call>>

\* const userDocuments = await getDocumentsByUserId(userId), and the messages
\* built from it.
GetDocuments ==
  /\ run.pc = "getDocuments"
  /\ \/ /\ run' = [run EXCEPT
                     !.pc = "firstLLM",
                     !.messages =
                       << SystemMessage(getDocumentsByUserId(documents, run.userId)),
                          [role |-> "user", text |-> run.userMessage] >>]
        /\ UNCHANGED outcome
     \/ Throw("getDocumentsByUserId")
  /\ UNCHANGED <<llmLog, ownerNotifications>>
  /\ UNCHANGED <<docVars, chatVars, call>>

\* A direct answer replaced by the fallback text.
DirectContentFallback(message) == FALLBACK_CONTENT

\* The content of the return for a message that requests no tool.
DirectContent(message) == ContentText(message.content)

\* await invokeLLM({ messages, tools: AGENT_TOOLS, toolChoice: "auto" }) and
\* the two ifs that follow it.
FirstLLM ==
  /\ run.pc = "firstLLM"
  /\ \/ /\ llmLog' = Append(llmLog, Invocation(TRUE, run.messages, [kind |-> "rejected"]))
        /\ Throw("invokeLLM")
     \/ /\ llmLog' = Append(llmLog, Invocation(TRUE, run.messages, Response(None)))
        /\ Return(FALLBACK_CONTENT, << >>, << >>)
     \/ \E m \in DirectMessages :
          /\ llmLog' = Append(llmLog, Invocation(TRUE, run.messages, Response(Some(m))))
          /\ Return(DirectContent(m), run.citations, run.toolCalls)
     \/ \E m \in ToolMessages :
          /\ llmLog' = Append(llmLog, Invocation(TRUE, run.messages, Response(Some(m))))
          /\ run' = [run EXCEPT !.pc = "tools", !.assistantMessage = Some(m), !.next = 1]
          /\ UNCHANGED outcome
  /\ UNCHANGED ownerNotifications
  /\ UNCHANGED <<docVars, chatVars, call>>

\* A SELECT that deletes what it has read.
AfterSelectDeletes(table) == {}

\* The document_chunks table after the SELECTs of searchDocuments, the only
\* statements runAgent sends to the store besides the SELECT of
\* getDocumentsByUserId: a SELECT leaves the table as it is.
AfterSelect(table) == table

\* One iteration of the loop over assistantMessage.tool_calls, with the
\* awaits of its case; after the last iteration the loop is left.
ExecuteTool ==
  /\ run.pc = "tools"
  /\ LET toolCall  == run.assistantMessage.val.tool_calls.val[run.next]
         toolName  == toolCall.name
         toolInput == JSONParse(toolCall.arguments)
         results   == SearchResults(documents, documentChunks, run.userId,
                                    toolName, toolInput)
         toolOutput == ToolOutput(toolName, toolInput, results)
         last      == run.next = Len(run.assistantMessage.val.tool_calls.val)
     IN  \/ /\ JSONParseThrows(toolCall.arguments)
            /\ Throw("JSON.parse")
            /\ UNCHANGED ownerNotifications
         \/ /\ ~JSONParseThrows(toolCall.arguments)
            /\ ToolInputThrows(toolName, toolInput)
            /\ Throw("TypeError")
            /\ UNCHANGED ownerNotifications
         \/ /\ ~JSONParseThrows(toolCall.arguments)
            /\ ~ToolInputThrows(toolName, toolInput)
            /\ ReadsStore(toolName, toolInput)
            /\ Throw("getDocumentsByUserId")
            /\ UNCHANGED ownerNotifications
         \/ /\ ~JSONParseThrows(toolCall.arguments)
            /\ ~ToolInputThrows(toolName, toolInput)
            /\ NotifiesOwner(toolName, results)
            /\ ownerNotifications' = ownerNotifications + 1
            /\ Throw("notifyOwner")
         \/ /\ ~JSONParseThrows(toolCall.arguments)
            /\ ~ToolInputThrows(toolName, toolInput)
            /\ ownerNotifications' =
                 ownerNotifications + (IF NotifiesOwner(toolName, results) THEN 1 ELSE 0)
            /\ run' = [run EXCEPT
                 !.pc          = IF last THEN "secondLLM" ELSE "tools",
                 !.next        = run.next + 1,
                 !.citations   = run.citations \o CitationsOf(results),
                 !.toolCalls   = Append(run.toolCalls,
                                   [tool |-> toolName, input |-> toolInput,
                                    output |-> toolOutput]),
                 !.toolResults = Append(run.toolResults,
                                   [role |-> "tool", tool_call_id |-> toolCall.id,
                                    json |-> JSONStringify(toolOutput)])]
            /\ UNCHANGED outcome
  /\ documentChunks' = AfterSelect(documentChunks)
  /\ UNCHANGED llmLog
  /\ UNCHANGED <<documents, nextDocId, proc, response, del, chatVars, call>>

\* The messages of a second invocation that sends the tool results last
\* call first.
SecondMessagesLastFirst ==
  run.messages
    \o << [role |-> "assistant",
           content |-> ContentText(run.assistantMessage.val.content)] >>
    \o [i \in 1..Len(run.toolResults) |->
          run.toolResults[Len(run.toolResults) + 1 - i]]

\* The messages of the second invocation.
SecondMessages ==
  run.messages
    \o << [role |-> "assistant",
           content |-> ContentText(run.assistantMessage.val.content)] >>
    \o run.toolResults

\* finalResponse.choices[0]?.message?.content
FinalContent(message) == IF message.some THEN message.val.content ELSE Undefined

\* await invokeLLM({ messages: [...] }) without tools, and the return that
\* follows it.
SecondLLM ==
  /\ run.pc = "secondLLM"
  /\ \/ /\ llmLog' = Append(llmLog, Invocation(FALSE, SecondMessages, [kind |-> "rejected"]))
        /\ Throw("invokeLLM")
     \/ \E message \in {None} \cup {Some(m) : m \in FinalMessages} :
          /\ llmLog' = Append(llmLog, Invocation(FALSE, SecondMessages, Response(message)))
          /\ Return(ContentText(FinalContent(message)),
                    DedupeCitations(run.citations), run.toolCalls)
  /\ UNCHANGED ownerNotifications
  /\ UNCHANGED <<docVars, chatVars, call>>

AgentNext ==
  \/ \E u \in Users, message \in UserMessages : RunAgent(u, message)
  \/ GetDocuments
  \/ FirstLLM
  \/ ExecuteTool
  \/ SecondLLM

\* runAgent against each of the stores.
AgentInit ==
  /\ \E store \in AgentStores :
       /\ documents = store.documents
       /\ documentChunks = store.chunks
  /\ nextDocId = SetMax(AgentDocIds) + 1
  /\ proc = [d \in AgentDocIds |-> NoProc]
  /\ response = [d \in AgentDocIds |-> None]
  /\ del = None
  /\ AgentIdle
  /\ conversations = AgentConversations
  /\ messages = AgentMessages
  /\ reports = AgentReports
  /\ call = NoCall

\* ------------------------------------------------------- specifications

vars == <<documents, nextDocId, documentChunks, proc, response, del,
          run, llmLog, ownerNotifications, outcome,
          conversations, messages, reports, call>>

\* Uploads, background processing and deletes; no agent run.
Init == DocInit /\ AgentIdle /\ ChatInit /\ call = NoCall

Next == DocNext

Spec == Init /\ [][Next]_vars

\* One runAgent call against a store that does not change meanwhile.
AgentSpec == AgentInit /\ [][AgentNext]_vars

\* ------------------------------------------------ searchDocuments, called

\* text repeated n times.
RECURSIVE Repeat(_, _)
Repeat(text, n) == IF n = 0 THEN << >> ELSE text \o Repeat(text, n - 1)

\* Number of sentences of the long text.
LongSentences == 34

\* A text of more than CHUNK_SIZE characters: sentences separated by a space.
TextLong == Repeat(TextSentence \o <<" ">>, LongSentences)

SearchDocIds == 1..15

\* The documents the stores of the search are made of: twelve short ones of
\* user 1 (texts and types alternate), two of user 2, and a long one of
\* user 1.
SearchDocuments ==
  [ d \in SearchDocIds |->
      CASE d \in 1..12 ->
             CompletedDocument(1, "txt", "Specification.txt",
                               IF d % 3 = 0 THEN "cpm_schedule"
                               ELSE IF d % 3 = 1 THEN "specifications" ELSE "other",
                               IF d % 2 = 1 THEN TextSentence ELSE TextFill)
        [] d = 13 -> CompletedDocument(2, "docx", "Bridge Schedule.docx",
                                       "cpm_schedule", TextSentence)
        [] d = 14 -> CompletedDocument(2, "txt", "Fill Notes.txt",
                                       "specifications", TextFill)
        [] OTHER  -> CompletedDocument(1, "txt", "Long Specification.txt",
                                       "specifications", TextLong) ]

\* The store with the rows of the documents `rows` and the chunks of the
\* documents `chunked`.
SearchStore(rows, chunked) ==
  [ documents |-> [d \in SearchDocIds |->
                     IF d \in rows THEN Some(SearchDocuments[d]) ELSE None],
    chunks    |-> UNION { ChunkRecords(d, SearchDocuments[d].userId,
                                       SearchDocuments[d].extractedText.val,
                                       SearchDocuments[d].pageCount) : d \in chunked } ]

\* The stores searched: an empty one; twelve documents of user 1, alone, with
\* one and with two documents of user 2; three documents of user 1 and the
\* chunks of a fourth whose row is gone (a delete that overlapped its
\* processing); a short and a long document.
SearchStores ==
  { SearchStore({}, {}),
    SearchStore(1..12, 1..12),
    SearchStore(1..13, 1..13),
    SearchStore(1..14, 1..14),
    SearchStore({1, 2, 3, 13}, {1, 2, 3, 5, 13}),
    SearchStore({1, 15}, {1, 15}) }

\* "CONCRETE", "fill", "steel", "fill shall", " steel", "" and "steel\tFILL ".
SearchQueries ==
  { <<"C", "O", "N", "C", "R", "E", "T", "E">>,
    <<"f", "i", "l", "l">>,
    <<"s", "t", "e", "e", "l">>,
    <<"f", "i", "l", "l", " ", "s", "h", "a", "l", "l">>,
    <<" ", "s", "t", "e", "e", "l">>,
    << >>,
    <<"s", "t", "e", "e", "l", "\t", "F", "I", "L", "L">> }

SearchDocumentTypes ==
  { None, Some(<< >>), Some(<<"specifications">>), Some(<<"cpm_schedule", "other">>) }

SearchInit ==
  /\ \E store \in SearchStores :
       /\ documents = store.documents
       /\ documentChunks = store.chunks
  /\ nextDocId = SetMax(SearchDocIds) + 1
  /\ proc = [d \in SearchDocIds |-> NoProc]
  /\ response = [d \in SearchDocIds |-> None]
  /\ del = None
  /\ AgentIdle
  /\ ChatInit
  /\ call = NoCall

\* searchDocuments(userId, query, documentTypes) is called.
SearchCall(u, query, documentTypes) ==
  /\ call.pc = "idle"
  /\ call' = [ op |-> "searchDocuments", pc |-> "called", userId |-> u,
               query |-> query, documentTypes |-> documentTypes, chunks |-> << >> ]
  /\ UNCHANGED <<docVars, agentVars, chatVars>>

\* searchDocuments returns.
SearchReturn ==
  /\ call.pc = "called"
  /\ call.op = "searchDocuments"
  /\ call' = [call EXCEPT
                !.pc = "returned",
                !.chunks = searchDocuments(documents, documentChunks, call.userId,
                                           call.query, call.documentTypes)]
  /\ UNCHANGED <<docVars, agentVars, chatVars>>

SearchNext ==
  \/ \E u \in Users, query \in SearchQueries, documentTypes \in SearchDocumentTypes :
       SearchCall(u, query, documentTypes)
  \/ SearchReturn

\* One searchDocuments call against each of the stores.
SearchSpec == SearchInit /\ [][SearchNext]_vars

\* ------------------------------------------------ executeCalculation alone

\* The maps from some of the names to some of the numbers.
ValueMaps(names, numbers) ==
  UNION { [present -> numbers] : present \in SUBSET names }

CalcNumbers == {0, 2, 3}

\* The names each type reads.
TypeFields ==
  [ area   |-> {"length", "width", "radius"},
    volume |-> {"length", "width", "height", "area", "depth"},
    linear |-> {"quantity", "unit_length"},
    weight |-> {"volume", "density", "quantity", "unit_weight"} ]

\* Inputs of the types that multiply values; a present value is 0 or 2, and 3
\* as well where the type reads few names.
ProductInputs ==
  UNION { { [calculation_type |-> type, values |-> v] :
              v \in ValueMaps(TypeFields[type],
                              IF Cardinality(TypeFields[type]) <= 3
                              THEN CalcNumbers ELSE {0, 2}) } :
          type \in DOMAIN TypeFields }

\* Inputs without values, without a type and of a type that does not exist.
PartialInputs ==
  { [calculation_type |-> type] : type \in {"area", "volume", "linear", "weight",
                                             "conversion", "custom", "perimeter"} }
    \cup { [values |-> [length |-> 2, width |-> 3]],
           [calculation_type |-> "perimeter", values |-> [length |-> 2, width |-> 3]],
           [calculation_type |-> "conversion", unit_from |-> "ft", unit_to |-> "m"],
           [calculation_type |-> "custom", formula |-> <<"a", " ", "*", " ", "b">>] }

CalcUnits == {"", "ft", "m", "acre", "sqm", "kg", "tonne"}

ConversionInputs ==
  { [calculation_type |-> "conversion", unit_from |-> from, unit_to |-> to, values |-> v] :
      from \in CalcUnits, to \in CalcUnits,
      v \in ValueMaps({"value"}, {0, 10}) }
    \cup { [calculation_type |-> "conversion", unit_to |-> "m", values |-> [value |-> 10]],
           [calculation_type |-> "conversion", unit_from |-> "ft", values |-> [value |-> 10]] }

\* Formulas: a product of two names, of a name and a literal, a literal, a
\* name that is part of another, an operator without its operand, a blank,
\* the empty text.
CalcFormulas ==
  { <<"a", " ", "*", " ", "b">>,
    <<"l", "e", "n", "g", "t", "h", "*", "w", "i", "d", "t", "h">>,
    <<"a", "r", "e", "a", " ", "*", " ", "d", "e", "p", "t", "h">>,
    <<"a", " ", "*", " ", "1", "2">>,
    <<"7">>,
    <<"a", " ", "*">>,
    <<"a", " ", "b">>,
    <<" ">>,
    << >> }

\* The values of a custom calculation with the order of their names.
CalcEntries ==
  { << >>, <<"a">>, <<"a", "b">>, <<"b", "a">>, <<"length", "width">>,
    <<"area", "depth">>, <<"a", "area", "depth">>, <<"area", "depth", "a">> }

Range(seq) == {seq[k] : k \in 1..Len(seq)}

CustomInputs ==
  UNION { { [calculation_type |-> "custom", formula |-> formula, entries |-> entries,
             values |-> v] :
              v \in [Range(entries) -> {2, 3}] } :
          <<formula, entries>> \in CalcFormulas \X CalcEntries }
    \cup { [calculation_type |-> "custom", values |-> [a |-> 2]] }

CalcInputs == ProductInputs \cup PartialInputs \cup ConversionInputs \cup CustomInputs

CalcInit == DocInit /\ AgentIdle /\ ChatInit /\ call = NoCall

\* executeCalculation(input) is called.
CalcCall(input) ==
  /\ call.pc = "idle"
  /\ call' = [op |-> "executeCalculation", pc |-> "called", input |-> input, value |-> None]
  /\ UNCHANGED <<docVars, agentVars, chatVars>>

\* executeCalculation returns.
CalcReturn ==
  /\ call.pc = "called"
  /\ call.op = "executeCalculation"
  /\ ~executeCalculationThrows(call.input)
  /\ call' = [call EXCEPT !.pc = "returned", !.value = Some(executeCalculation(call.input))]
  /\ UNCHANGED <<docVars, agentVars, chatVars>>

\* executeCalculation raises.
CalcThrow ==
  /\ call.pc = "called"
  /\ call.op = "executeCalculation"
  /\ executeCalculationThrows(call.input)
  /\ call' = [call EXCEPT !.pc = "threw"]
  /\ UNCHANGED <<docVars, agentVars, chatVars>>

CalcNext ==
  \/ \E input \in CalcInputs : CalcCall(input)
  \/ CalcReturn
  \/ CalcThrow

\* One executeCalculation call.
CalcSpec == CalcInit /\ [][CalcNext]_vars

\* --------------------------------------------------- splitIntoChunks alone

\* The loop of splitIntoChunks from window start `start`, at most `fuel`
\* iterations: the windows text.slice(start, end) as their start and end.
RECURSIVE Windows(_, _, _, _, _)
Windows(text, chunkSize, overlap, start, fuel) ==
  IF fuel = 0 \/ ~(start < Len(text)) THEN << >>
  ELSE LET end == WindowEnd(text, chunkSize, start)
       IN  << [start |-> start, end |-> end] >>
             \o Windows(text, chunkSize, overlap, end - overlap, fuel - 1)

\* A text of n characters without a break point.
Filler(n) == [i \in 1..n |-> "x"]

\* n blanks.
Blanks(n) == [i \in 1..n |-> " "]

\* Sentences that end in a break point, longer than two windows.
TextSentences == Repeat(TextSentence \o <<" ">>, 2 * LongSentences)

\* Lengths around the filter's threshold, around the window and past it.
ChunkLengths ==
  { 0, 1, TINY_CHUNK - 1, TINY_CHUNK, TINY_CHUNK + 1, TINY_CHUNK + 12,
    CHUNK_SIZE - 1, CHUNK_SIZE, CHUNK_SIZE + 1, CHUNK_SIZE + TINY_CHUNK,
    CHUNK_SIZE + CHUNK_OVERLAP, 2 * CHUNK_SIZE }

\* What a text begins and ends with.
ChunkStarts == { << >>, <<" ">> }

ChunkEnds == { << >>, <<"\n">> }

\* Texts of those lengths, with and without break points, with and without
\* whitespace at their ends, texts that are mostly blank, and a text whose
\* only break point starts where the first window would end.
ChunkTexts ==
  { before \o Take(body, n) \o after :
      before \in ChunkStarts, after \in ChunkEnds,
      body \in {TextSentences, Filler(2 * CHUNK_SIZE)}, n \in ChunkLengths }
    \cup { Filler(TINY_CHUNK) \o Blanks(CHUNK_SIZE + CHUNK_OVERLAP) \o Filler(TINY_CHUNK),
           Filler(TINY_CHUNK + 1) \o Blanks(CHUNK_SIZE + CHUNK_OVERLAP) \o Filler(TINY_CHUNK + 1),
           Filler(CHUNK_SIZE - TINY_CHUNK) \o Blanks(TINY_CHUNK + CHUNK_OVERLAP) \o Filler(TINY_CHUNK),
           Filler(CHUNK_SIZE) \o <<".", " ">> \o Filler(TINY_CHUNK + 1) }

ChunkInit == DocInit /\ AgentIdle /\ ChatInit /\ call = NoCall

\* splitIntoChunks(text) is called.
ChunkCall(text) ==
  /\ call.pc = "idle"
  /\ call' = [ op |-> "splitIntoChunks", pc |-> "called", text |-> text,
               windows |-> << >>, chunks |-> << >> ]
  /\ UNCHANGED <<docVars, agentVars, chatVars>>

\* splitIntoChunks returns; the windows it cut are kept beside its result.
ChunkReturn ==
  /\ call.pc = "called"
  /\ call.op = "splitIntoChunks"
  /\ call' = [call EXCEPT
                !.pc = "returned",
                !.windows = Windows(call.text, CHUNK_SIZE, CHUNK_OVERLAP, 0,
                                    Len(call.text) + 1),
                !.chunks = splitIntoChunks(call.text)]
  /\ UNCHANGED <<docVars, agentVars, chatVars>>

ChunkNext ==
  \/ \E text \in ChunkTexts : ChunkCall(text)
  \/ ChunkReturn

\* One splitIntoChunks call.
ChunkSpec == ChunkInit /\ [][ChunkNext]_vars

\* ------------------------------------- splitIntoChunks, any parameters

\* Longest text of a call.
MaxText == 6

\* Largest chunkSize of a call.
MaxChunkSize == 5

\* The loop is followed for this many iterations: more than a loop that
\* advances by one character at a time needs.
MaxIterations == MaxText + 1

\* A character of no break point, and the characters of the break points.
LoopCharacters == {"x", ".", " ", "\n"}

LoopTexts == UNION {[1..n -> LoopCharacters] : n \in 0..MaxText}

\* chunkSize and overlap with chunkSize > overlap >= 0.
LoopParameters ==
  {p \in (1..MaxChunkSize) \X (0..(MaxChunkSize - 1)) : p[1] > p[2]}

LoopInit == DocInit /\ AgentIdle /\ ChatInit /\ call = NoCall

\* splitIntoChunks(text, chunkSize, overlap) is called: let start = 0.
SplitCall ==
  /\ call.pc = "idle"
  /\ \E text \in LoopTexts, p \in LoopParameters :
       call' = [ op |-> "splitIntoChunks", pc |-> "loop", text |-> text,
                 chunkSize |-> p[1], overlap |-> p[2],
                 start |-> 0, windows |-> << >>, chunks |-> << >> ]
  /\ UNCHANGED <<docVars, agentVars, chatVars>>

\* One iteration of while (start < text.length): the window is cut, its
\* trimmed text is pushed and start becomes end - overlap.
SplitIterate ==
  /\ call.pc = "loop"
  /\ call.start < Len(call.text)
  /\ Len(call.windows) < MaxIterations
  /\ LET end == WindowEnd(call.text, call.chunkSize, call.start)
     IN  call' = [call EXCEPT
                    !.windows = Append(call.windows,
                                       [start |-> call.start, end |-> end]),
                    !.chunks  = Append(call.chunks,
                                       Trim(Slice(call.text, call.start, end))),
                    !.start   = end - call.overlap]
  /\ UNCHANGED <<docVars, agentVars, chatVars>>

\* The loop is left: return chunks.filter(c => c.length > 50).
SplitReturn ==
  /\ call.pc = "loop"
  /\ ~(call.start < Len(call.text))
  /\ call' = [call EXCEPT !.pc = "returned", !.chunks = FilterTiny(call.chunks)]
  /\ UNCHANGED <<docVars, agentVars, chatVars>>

LoopNext ==
  \/ SplitCall
  \/ SplitIterate
  \/ SplitReturn

\* One splitIntoChunks call with parameters of the caller's choice, followed
\* iteration by iteration.
LoopSpec == LoopInit /\ [][LoopNext]_vars

\* --------------------------------------------------------- runAgentStream

\* Longest content of a response.
MaxContent == 7

\* Most tool calls, and most citations, of a response.
MaxEntries == 2

\* String.prototype.split(' '): the pieces between the blanks, empty ones
\* included; a text without a blank is its only piece.
RECURSIVE Split(_)
Split(text) ==
  LET at == IndexOf(text, <<" ">>)
  IN  IF at = -1 THEN << text >>
      ELSE << SubSeq(text, 1, at) >> \o Split(SubSeq(text, at + 2, Len(text)))

\* words.slice(i, i + 3) with 0 <= i < words.length.
Slice3(words, i) == SubSeq(words, i + 1, Min(i + 3, Len(words)))

\* The contents of a response: every text of words "a" and blanks up to the
\* bound, and undefined (runAgent returns JSON.stringify(undefined) when the
\* assistant message has no content).
StreamContents ==
  {Some(t) : t \in UNION {[1..n -> {"a", " "}] : n \in 0..MaxContent}} \cup {None}

\* The toolCalls lists and the citations lists of a response.
StreamToolCalls ==
  {[i \in 1..n |-> [tool |-> "search_documents", input |-> i]] : n \in 0..MaxEntries}

StreamCitations ==
  {[i \in 1..n |-> [documentId |-> i, pageNumber |-> 1]] : n \in 0..MaxEntries}

\* What runAgent resolves to.
AgentResponses ==
  [content : StreamContents, citations : StreamCitations, toolCalls : StreamToolCalls]

Event(type, data) == [type |-> type, data |-> data]

StreamInit == DocInit /\ AgentIdle /\ ChatInit /\ call = NoCall

\* runAgentStream(userId, userMessage) is called and its first event is
\* asked for.
RunAgentStream ==
  /\ call.pc = "idle"
  /\ call' = [ op |-> "runAgentStream", pc |-> "runAgent", response |-> None,
               events |-> << >>, next |-> 1, words |-> << >>, i |-> 0,
               accumulated |-> << >>, error |-> "" ]
  /\ UNCHANGED <<docVars, agentVars, chatVars>>

\* const response = await runAgent(...): it resolves, or it rejects and the
\* generator throws.
AwaitRunAgent ==
  /\ call.op = "runAgentStream"
  /\ call.pc = "runAgent"
  /\ \/ \E r \in AgentResponses :
          call' = [call EXCEPT !.pc = "tools", !.response = Some(r)]
     \/ call' = [call EXCEPT !.pc = "threw", !.error = "runAgent"]
  /\ UNCHANGED <<docVars, agentVars, chatVars>>

\* for (const tool of response.toolCalls) yield { type: 'tool', data: tool }
YieldTool ==
  /\ call.op = "runAgentStream"
  /\ call.pc = "tools"
  /\ call.next <= Len(call.response.val.toolCalls)
  /\ call' = [call EXCEPT
                !.events = Append(call.events,
                             Event("tool", call.response.val.toolCalls[call.next])),
                !.next = call.next + 1]
  /\ UNCHANGED <<docVars, agentVars, chatVars>>

\* const words = response.content.split(' '): a TypeError when the content is
\* undefined.
SplitContent ==
  /\ call.op = "runAgentStream"
  /\ call.pc = "tools"
  /\ call.next > Len(call.response.val.toolCalls)
  /\ IF call.response.val.content.some
     THEN call' = [call EXCEPT !.pc = "content",
                               !.words = Split(call.response.val.content.val),
                               !.i = 0, !.accumulated = << >>]
     ELSE call' = [call EXCEPT !.pc = "threw", !.error = "TypeError"]
  /\ UNCHANGED <<docVars, agentVars, chatVars>>

\* One iteration of for (let i = 0; i < words.length; i += 3).
YieldContent ==
  /\ call.op = "runAgentStream"
  /\ call.pc = "content"
  /\ call.i < Len(call.words)
  /\ LET accumulated == call.accumulated \o Join(Slice3(call.words, call.i), <<" ">>) \o <<" ">>
     IN  call' = [call EXCEPT
                    !.accumulated = accumulated,
                    !.events = Append(call.events, Event("content", Trim(accumulated))),
                    !.i = call.i + 3]
  /\ UNCHANGED <<docVars, agentVars, chatVars>>

\* The content loop is left for the loop over response.citations.
ContentDone ==
  /\ call.op = "runAgentStream"
  /\ call.pc = "content"
  /\ ~(call.i < Len(call.words))
  /\ call' = [call EXCEPT !.pc = "citations", !.next = 1]
  /\ UNCHANGED <<docVars, agentVars, chatVars>>

\* for (const citation of response.citations) yield { type: 'citation', ... }
YieldCitation ==
  /\ call.op = "runAgentStream"
  /\ call.pc = "citations"
  /\ call.next <= Len(call.response.val.citations)
  /\ call' = [call EXCEPT
                !.events = Append(call.events,
                             Event("citation", call.response.val.citations[call.next])),
                !.next = call.next + 1]
  /\ UNCHANGED <<docVars, agentVars, chatVars>>

\* yield { type: 'done', data: response }, and the generator ends.
YieldDone ==
  /\ call.op = "runAgentStream"
  /\ call.pc = "citations"
  /\ call.next > Len(call.response.val.citations)
  /\ call' = [call EXCEPT
                !.pc = "done",
                !.events = Append(call.events, Event("done", call.response.val))]
  /\ UNCHANGED <<docVars, agentVars, chatVars>>

StreamNext ==
  \/ RunAgentStream
  \/ AwaitRunAgent
  \/ YieldTool
  \/ SplitContent
  \/ YieldContent
  \/ ContentDone
  \/ YieldCitation
  \/ YieldDone

\* One runAgentStream call whose events are all asked for.
StreamSpec == StreamInit /\ [][StreamNext]_vars

\* ----------------------------------------------------- conversations, chat

MaxConversations == 1

MaxSends == 2

\* input.title || "New Chat"
DEFAULT_TITLE == <<"N", "e", "w", " ", "C", "h", "a", "t">>

\* The titles conversations.create is called with: none, the empty one, one.
ChatTitles == { None, Some(<< >>), Some(<<"P", "l", "a", "n", "s">>) }

\* A message of 50 characters.
MessageFifty == Take(TextSentence, 50)

\* The messages chat.send is called with: of 5, 50 and 61 characters.
ChatMessages == { MessageHello, MessageFifty, TextSentence }

\* The conversation ids chat.send is called with; the last one is never in
\* the table.
ConversationIds == 1..(MaxConversations + 1)

\* String.prototype.substring(0, n).
Substring(text, n) == SubSeq(text, 1, Min(n, Len(text)))

\* message.length > 50 ? message.substring(0, 47) + "..." : message
DerivedTitle(message) ==
  IF Len(message) > 50 THEN Substring(message, 47) \o Ellipsis ELSE message

\* getConversationById without the userId condition.
getConversationByIdOfAnyUser(table, id, userId) ==
  IF id \in DOMAIN table THEN table[id] ELSE None

\* getConversationById(id, userId): the row with that id and that owner.
getConversationById(table, id, userId) ==
  IF id \in DOMAIN table /\ table[id].some /\ table[id].val.userId = userId
  THEN table[id] ELSE None

\* createConversation({ userId, title: input.title || "New Chat", ... }); the
\* time lastMessageAt holds is kept as the number of times it was written.
createConversation(table, userId, title) ==
  Append(table, Some([ userId        |-> userId,
                       title         |-> IF title.some /\ Len(title.val) > 0
                                         THEN title.val ELSE DEFAULT_TITLE,
                       lastMessageAt |-> 0 ]))

\* updateConversation(id, userId, { title }): the title and lastMessageAt of
\* the row with that id and that owner.
updateConversation(table, id, userId, title) ==
  IF getConversationById(table, id, userId).some
  THEN [table EXCEPT ![id] = Some([@.val EXCEPT !.title = title,
                                                !.lastMessageAt = @ + 1])]
  ELSE table

\* The id createMessage's insert gets; no message is ever deleted here.
NextMessageId(table) == Cardinality(table) + 1

\* The row createMessage inserts.
MessageRow(table, conversationId, userId, role, content) ==
  [ id |-> NextMessageId(table), conversationId |-> conversationId,
    userId |-> userId, role |-> role, content |-> content ]

\* The second statement of createMessage: lastMessageAt of the conversation
\* with that id.
TouchConversation(table, id) ==
  IF id \in DOMAIN table /\ table[id].some
  THEN [table EXCEPT ![id] = Some([@.val EXCEPT !.lastMessageAt = @ + 1])]
  ELSE table

\* getMessagesByConversationId(conversationId): the ids of its messages in
\* creation order.
RECURSIVE AscendingIds(_)
AscendingIds(ids) ==
  IF ids = {} THEN << >>
  ELSE << SetMin(ids) >> \o AscendingIds(ids \ {SetMin(ids)})

getMessagesByConversationId(table, conversationId) ==
  AscendingIds({m.id : m \in {r \in table : r.conversationId = conversationId}})

\* No chat.send call has been made.
NoSend ==
  [ op |-> "none", pc |-> "idle", userId |-> 0, conversationId |-> 0,
    message |-> << >>, conversation |-> None, userMessage |-> 0,
    history |-> << >>, error |-> "none", sends |-> 0 ]

ChatSpecInit ==
  /\ DocInit
  /\ AgentIdle
  /\ ChatInit
  /\ call = NoSend

\* conversations.create({ title }) by user u.
CreateConversation(u, title) ==
  /\ call.pc \in {"idle", "returned", "threw"}
  /\ Len(conversations) < MaxConversations
  /\ conversations' = createConversation(conversations, u, title)
  /\ UNCHANGED <<messages, reports, call, docVars, agentVars>>

\* chat.send({ conversationId, message }) is called by user u.
Send(u, conversationId, message) ==
  /\ call.pc \in {"idle", "returned", "threw"}
  /\ call.sends < MaxSends
  /\ call' = [NoSend EXCEPT !.op = "chat.send", !.pc = "verify", !.userId = u,
                            !.conversationId = conversationId, !.message = message,
                            !.sends = call.sends + 1]
  /\ outcome' = None
  /\ UNCHANGED <<run, llmLog, ownerNotifications, docVars, chatVars>>

\* An exception leaves chat.send.
SendThrows(error) == call' = [call EXCEPT !.pc = "threw", !.error = error]

\* const conversation = await getConversationById(...);
\* if (!conversation) throw new Error("Conversation not found")
VerifyConversation ==
  /\ call.pc = "verify"
  /\ LET conversation == getConversationById(conversations, call.conversationId, call.userId)
     IN  \/ /\ conversation.some
            /\ call' = [call EXCEPT !.pc = "saveUserMessage", !.conversation = conversation]
         \/ /\ ~conversation.some
            /\ SendThrows("Conversation not found")
         \/ SendThrows("getConversationById")
  /\ UNCHANGED <<docVars, agentVars, chatVars>>

\* const userMessage = await createMessage({ ..., role: "user", content })
SaveUserMessage ==
  /\ call.pc = "saveUserMessage"
  /\ \/ /\ messages' = messages \cup
                         {MessageRow(messages, call.conversationId, call.userId,
                                     "user", call.message)}
        /\ conversations' = TouchConversation(conversations, call.conversationId)
        /\ call' = [call EXCEPT !.pc = "getHistory",
                                !.userMessage = NextMessageId(messages)]
     \/ /\ SendThrows("createMessage")
        /\ UNCHANGED <<conversations, messages>>
  /\ UNCHANGED <<reports, docVars, agentVars>>

\* const history = await getMessagesByConversationId(input.conversationId)
GetHistory ==
  /\ call.pc = "getHistory"
  /\ \/ call' = [call EXCEPT
                   !.pc = "runAgent",
                   !.history = getMessagesByConversationId(messages, call.conversationId)]
     \/ SendThrows("getMessagesByConversationId")
  /\ UNCHANGED <<docVars, agentVars, chatVars>>

\* const agentResponse = await runAgent(userId, input.message, llmHistory):
\* runAgent returns a response or raises.
SendRunsAgent ==
  /\ call.pc = "runAgent"
  /\ \/ /\ outcome' = Some([ kind |-> "returned", content |-> Content("string", AnswerText),
                             citations |-> << >>, toolCalls |-> << >> ])
        /\ call' = [call EXCEPT !.pc = "saveAssistantMessage"]
     \/ /\ outcome' = Some([kind |-> "thrown", error |-> "invokeLLM"])
        /\ SendThrows("runAgent")
  /\ UNCHANGED <<run, llmLog, ownerNotifications, docVars, chatVars>>

\* const assistantMessage = await createMessage({ ..., role: "assistant", ... })
SaveAssistantMessage ==
  /\ call.pc = "saveAssistantMessage"
  /\ \/ /\ messages' = messages \cup
                         {MessageRow(messages, call.conversationId, call.userId,
                                     "assistant", <<"a", "n", "s", "w", "e", "r">>)}
        /\ conversations' = TouchConversation(conversations, call.conversationId)
        /\ call' = [call EXCEPT !.pc = "updateTitle"]
     \/ /\ SendThrows("createMessage")
        /\ UNCHANGED <<conversations, messages>>
  /\ UNCHANGED <<reports, docVars, agentVars>>

\* history.length === 0
FirstMessageOf(history) == Len(history) = 0

\* if (history.length === 0) { await updateConversation(..., { title }) };
\* return { ... }
UpdateTitle ==
  /\ call.pc = "updateTitle"
  /\ IF FirstMessageOf(call.history)
     THEN \/ /\ conversations' = updateConversation(conversations, call.conversationId,
                                                    call.userId, DerivedTitle(call.message))
             /\ call' = [call EXCEPT !.pc = "returned"]
          \/ /\ SendThrows("updateConversation")
             /\ UNCHANGED conversations
     ELSE /\ call' = [call EXCEPT !.pc = "returned"]
          /\ UNCHANGED conversations
  /\ UNCHANGED <<messages, reports, docVars, agentVars>>

ChatNext ==
  \/ \E u \in Users, title \in ChatTitles : CreateConversation(u, title)
  \/ \E u \in Users, id \in ConversationIds, message \in ChatMessages : Send(u, id, message)
  \/ VerifyConversation
  \/ SaveUserMessage
  \/ GetHistory
  \/ SendRunsAgent
  \/ SaveAssistantMessage
  \/ UpdateTitle

\* conversations.create and chat.send, one call at a time.
ChatSpec == ChatSpecInit /\ [][ChatNext]_vars

\* ----------------------------------------------- properties: documents

Status(d) == documents[d].val.processingStatus

\* processDocumentWithLLM(d, ...) has ended by throwing.
Threw(d) == proc[d].pc \in {"rejected", "done"} /\ proc[d].thrown # "none"

StatusOrder ==
  { <<"pending", "processing">>, <<"processing", "completed">>,
    <<"processing", "failed">> }

\* Every step creates a row as pending and changes a status only along `order`.
StatusStep(order) ==
  \A d \in DocIds :
    /\ (~documents[d].some /\ documents'[d].some)
         => documents'[d].val.processingStatus = "pending"
    /\ (documents[d].some /\ documents'[d].some
          /\ documents'[d].val.processingStatus # Status(d))
         => <<Status(d), documents'[d].val.processingStatus>> \in order

\* C1, as stated: a document is created as pending and its status changes only
\* pending -> processing, processing -> completed or processing -> failed; a
\* completed or failed status never changes.
C1_StatusOnlyThroughProcessing == [][StatusStep(StatusOrder)]_vars

\* C1, amended: as above, with one more transition, pending -> failed, taken
\* when the write of "processing" itself raises and the catch block writes
\* failed; a completed or failed status never changes.
C1_StatusTransitions ==
  [][StatusStep(StatusOrder \cup {<<"pending", "failed">>})]_vars

\* C1: a document that failed in extraction, after it had entered processing.
C1_FailedAfterProcessing ==
  \E d \in DocIds :
    /\ documents[d].some
    /\ Status(d) = "failed"
    /\ proc[d].thrown = "extraction"

\* C2, as stated: when a step of processDocumentWithLLM raises, the status
\* ends as failed, extractedText and pageCount are as before processing
\* (null), and the exception raised is the one re-thrown.
C2_FailureEndsFailed ==
  \A d \in DocIds :
    (Threw(d) /\ documents[d].some) =>
      /\ Status(d) = "failed"
      /\ documents[d].val.extractedText = None
      /\ documents[d].val.pageCount = None
      /\ proc[d].thrown = proc[d].caught

\* C2, amended: when a step raises, extractedText and pageCount are as before
\* processing and processDocumentWithLLM throws; if the catch block's write of
\* failed succeeds the status ends as failed and the exception raised is the
\* one re-thrown, and if that write raises too, its exception is the one
\* thrown and the status stays what it was (pending or processing).
C2_FailureHandling ==
  \A d \in DocIds :
    (Threw(d) /\ documents[d].some) =>
      /\ documents[d].val.extractedText = None
      /\ documents[d].val.pageCount = None
      /\ proc[d].caught # "none"
      /\ \/ /\ proc[d].thrown = proc[d].caught
            /\ Status(d) = "failed"
         \/ /\ proc[d].thrown = "setFailed"
            /\ Status(d) = IF proc[d].caught = "setProcessing"
                           THEN "pending" ELSE "processing"

\* C2: the final status write raised, the document is failed and the
\* exception was re-thrown.
C2_FinalWriteRaised ==
  \E d \in DocIds :
    /\ Threw(d)
    /\ documents[d].some
    /\ proc[d].caught = "setCompleted"
    /\ proc[d].thrown = "setCompleted"
    /\ Status(d) = "failed"

\* C3: from the moment the row exists, upload has given its caller the row as
\* created, with status pending, and no error; nothing the background task
\* does later (a failure of processing, of the metadata analysis or of the
\* notification) changes that.
C3_UploadReturnsPending ==
  \A d \in DocIds :
    (proc[d].pc # "none") =>
      /\ response[d].some
      /\ response[d].val.error = "none"
      /\ response[d].val.document = NewDocument(proc[d].userId, proc[d].fileType)
      /\ response[d].val.document.processingStatus = "pending"

\* C3: the background task has failed and its rejection has been handled; the
\* failure shows as status failed in the store.
C3_FailureOnlyInStore ==
  \E d \in DocIds :
    /\ proc[d].pc = "done"
    /\ proc[d].thrown # "none"
    /\ documents[d].some
    /\ Status(d) = "failed"
    /\ response[d].some

\* A deleteDocument call by a user who does not own the row takes a step.
ForeignDeleteStep ==
  /\ del.some
  /\ del' # del
  /\ documents[del.val.id].some
  /\ documents[del.val.id].val.userId # del.val.userId

\* C4: deleteDocument(id, userId) by a user who does not own the row leaves
\* the store unchanged (the document and all its chunks still exist) and
\* returns false.
C4_ForeignDeleteChangesNothing ==
  [][ForeignDeleteStep =>
       /\ documents' = documents
       /\ documentChunks' = documentChunks
       /\ ~DeleteResult(documents, del.val.id, del.val.userId)]_vars

\* C5: every persisted chunk refers to a document that exists; once a document
\* is deleted no chunk of it exists, then or later.
C5_NoOrphanChunks ==
  \A c \in documentChunks : documents[c.documentId].some

\* -------------------------------------------------- properties: runAgent

Returned == outcome.some /\ outcome.val.kind = "returned"

Thrown == outcome.some /\ outcome.val.kind = "thrown"

\* The i-th invocation resolved to a response without an assistant message.
NoMessage(i) ==
  /\ i <= Len(llmLog)
  /\ llmLog[i].response.kind = "response"
  /\ ~llmLog[i].response.message.some

\* The first invocation resolved to a response with an assistant message.
FirstMessage ==
  /\ Len(llmLog) >= 1
  /\ llmLog[1].response.kind = "response"
  /\ llmLog[1].response.message.some

FirstRequestsTools ==
  FirstMessage /\ RequestsTools(llmLog[1].response.message.val)

FirstRequestsNoTools ==
  FirstMessage /\ ~RequestsTools(llmLog[1].response.message.val)

\* C6: if the first or the second invocation returns a response with no
\* assistant message, runAgent returns the non-empty fallback content with an
\* empty citations list and an empty toolCalls list.
C6_NoMessageGivesFallback ==
  (Returned /\ (NoMessage(1) \/ NoMessage(2))) =>
    /\ outcome.val.content = FALLBACK_CONTENT
    /\ outcome.val.citations = << >>
    /\ outcome.val.toolCalls = << >>

\* C7: runAgent never raises an exception to its caller, whatever the LLM
\* collaborator does (a failed invocation, arguments that are not valid JSON
\* or lack a field, an unknown tool name).
C7_NeverThrows == ~Thrown

ProactiveSearch ==
  searchDocuments(documents, documentChunks, run.userId, run.userMessage, None)

\* C9: when chunks of the user contain a term of the user message, runAgent
\* returns at least one citation of a matching chunk (document name and page
\* number) and a toolCalls list that starts with a search_documents entry,
\* also when the LLM requests no tools; when no chunk matches, the returned
\* citations list is empty.
C9_ProactiveSearch ==
  Returned =>
    IF Len(ProactiveSearch) > 0
    THEN /\ \E i \in 1..Len(outcome.val.citations), k \in 1..Len(ProactiveSearch) :
              outcome.val.citations[i] = ProactiveSearch[k].citation
         /\ Len(outcome.val.toolCalls) >= 1
         /\ outcome.val.toolCalls[1].tool = "search_documents"
    ELSE outcome.val.citations = << >>

\* C10: a run that has ended made at most two invocations: exactly one when
\* the first response requests no tools, exactly two when it requests at least
\* one; the second invocation offers no tools, and only the tool calls of the
\* first response are executed.
C10_InvocationCount ==
  outcome.some =>
    /\ Len(llmLog) <= 2
    /\ FirstRequestsNoTools => Len(llmLog) = 1
    /\ FirstRequestsTools =>
         /\ Len(llmLog) = 2
         /\ ~llmLog[2].tools
         /\ Returned =>
              Len(outcome.val.toolCalls)
                = Len(llmLog[1].response.message.val.tool_calls.val)

\* The citations the executed tool calls have accumulated, in order (the store
\* is the one the tools read).
RECURSIVE CitationsOfCalls(_)
CitationsOfCalls(calls) ==
  IF Len(calls) = 0 THEN << >>
  ELSE CitationsOf(SearchResults(documents, documentChunks, run.userId,
                                 calls[1].tool, calls[1].input))
         \o CitationsOfCalls(Tail(calls))

SamePair(a, b) == a.documentId = b.documentId /\ a.excerpt = b.excerpt

\* C11: the citations runAgent returns hold exactly one entry for each distinct
\* (documentId, excerpt) pair accumulated from the tool results: every returned
\* citation is an accumulated one, and every accumulated citation has exactly
\* one returned entry with its documentId and its excerpt.
C11_OneCitationPerPair ==
  (Returned /\ FirstRequestsTools) =>
    LET accumulated == CitationsOfCalls(outcome.val.toolCalls)
        returned    == outcome.val.citations
    IN  /\ \A i \in 1..Len(returned) :
              \E j \in 1..Len(accumulated) : returned[i] = accumulated[j]
        /\ \A j \in 1..Len(accumulated) :
              Cardinality({i \in 1..Len(returned) :
                             SamePair(returned[i], accumulated[j])}) = 1

\* C12: a failure of the owner notification that detect_conflicts triggers
\* never ends the run: no run ends by throwing the notification's failure (it
\* goes on to the second invocation and returns).
C12_NotificationFailureTolerated ==
  ~(Thrown /\ outcome.val.error = "notifyOwner")

\* C13: no step of runAgent changes the documents, the chunks, the
\* conversations, the messages or the reports.
C13_AgentNeverWrites ==
  [][ /\ documents' = documents
      /\ documentChunks' = documentChunks
      /\ conversations' = conversations
      /\ messages' = messages
      /\ reports' = reports ]_vars

\* C13: a run has returned after a search tool that found chunks, against a
\* store that holds documents, chunks, messages and a report.
C13_SearchedAndReturned ==
  /\ Returned
  /\ Len(outcome.val.toolCalls) > 0
  /\ outcome.val.toolCalls[1].tool = "search_documents"
  /\ Len(outcome.val.citations) > 0
  /\ documentChunks # {}
  /\ messages # {}
  /\ reports # {}

\* -------------------------------------------- properties: searchDocuments

SearchReturned == call.op = "searchDocuments" /\ call.pc = "returned"

\* The whitespace-separated terms of the lower-cased query: the maximal runs
\* of characters that are no whitespace, and the empty term when the query is
\* empty or starts or ends with whitespace.
Terms(query) ==
  LET q      == toLowerCase(query)
      n      == Len(q)
      Run(i, j) ==
        /\ \A k \in i..j : q[k] \notin Whitespace
        /\ (i = 1 \/ q[i - 1] \in Whitespace)
        /\ (j = n \/ q[j + 1] \in Whitespace)
  IN  {SubSeq(q, i, j) : <<i, j>> \in {r \in (1..n) \X (1..n) : r[1] <= r[2] /\ Run(r[1], r[2])}}
        \cup (IF n = 0 \/ q[1] \in Whitespace \/ q[n] \in Whitespace
              THEN {<< >>} ELSE {})

\* A term of the query is a substring of the chunk's lower-cased content.
ContainsTerm(chunk, query) ==
  \E term \in Terms(query) : Includes(toLowerCase(chunk.content), term)

\* The chunks of the user that match the query.
MatchingChunks == {c \in documentChunks : c.userId = call.userId /\ ContainsTerm(c, call.query)}

\* The chunk's document is a document of the user and passes the filter of
\* documentTypes.
Eligible(c) ==
  /\ documents[c.documentId].some
  /\ documents[c.documentId].val.userId = call.userId
  /\ \/ ~call.documentTypes.some
     \/ Len(call.documentTypes.val) = 0
     \/ \E k \in 1..Len(call.documentTypes.val) :
          call.documentTypes.val[k] = documents[c.documentId].val.documentType

\* Number of chunks of M that come before c in storage order.
Rank(c, M) == Cardinality({d \in M : d # c /\ ChunkBefore(d, c)})

\* The result entry is the one of chunk c.
ResultOf(entry, c) ==
  /\ entry.content = c.content
  /\ entry.citation.documentId = c.documentId
  /\ entry.citation.pageNumber = c.pageNumber
  /\ entry.citation.excerpt = Excerpt(c.content)

\* result is the first min(10, n) of the n chunks of M, in storage order.
FirstTen(result, M) ==
  /\ Len(result) = Min(10, Cardinality(M))
  /\ \A c \in M : Rank(c, M) < 10 => ResultOf(result[Rank(c, M) + 1], c)

\* C14, as stated: searchDocuments returns exactly the first min(10, n) of the
\* n chunks of the user that contain a term of the query, in storage order.
C14_FirstTenMatching ==
  SearchReturned => FirstTen(call.chunks, MatchingChunks)

\* C14, amended: searchDocuments returns exactly the first min(10, n), in
\* storage order (documentId, then chunkIndex), of the n chunks of the user
\* that contain a term of the query and whose document is a document of the
\* user with, when documentTypes is non-empty, a type in documentTypes; the
\* empty query and a query that starts or ends with whitespace have the empty
\* term, which every chunk contains.
C14_FirstTenEligible ==
  SearchReturned =>
    FirstTen(call.chunks, {c \in MatchingChunks : Eligible(c)})

\* C14: a search with a type filter has returned 4 of the user's 12 matching
\* chunks, and a search without one the first 10 of 12.
C14_LimitApplied ==
  /\ SearchReturned
  /\ Cardinality(MatchingChunks) > 10
  /\ Len(call.chunks) = 10
  /\ ~call.documentTypes.some

\* C15, as stated: every chunk of the user whose content contains a query
\* term as a case-insensitive substring is in the results.
C15_EveryMatchIncluded ==
  SearchReturned =>
    \A c \in MatchingChunks :
      \E i \in 1..Len(call.chunks) : ResultOf(call.chunks[i], c)

\* C15, amended: every chunk of the user whose content contains a query term
\* as a case-insensitive substring is in the results, provided its document is
\* a document of the user that passes the documentTypes filter and fewer than
\* 10 such chunks precede it in storage order.
C15_EarlyMatchIncluded ==
  SearchReturned =>
    \A c \in {m \in MatchingChunks : Eligible(m)} :
      Rank(c, {m \in MatchingChunks : Eligible(m)}) < 10 =>
        \E i \in 1..Len(call.chunks) : ResultOf(call.chunks[i], c)

\* C15: an upper-case query has found the user's lower-case chunks while an
\* eleventh matching chunk was left out.
C15_CaseInsensitiveMatch ==
  /\ SearchReturned
  /\ call.query = <<"C", "O", "N", "C", "R", "E", "T", "E">>
  /\ Len(call.chunks) = 10
  /\ \E c \in MatchingChunks :
       \A i \in 1..Len(call.chunks) : ~ResultOf(call.chunks[i], c)

\* The store agrees with the current one on the rows of the user.
SameRowsOf(store, u) ==
  /\ \A d \in DOMAIN documents :
       (documents[d].some /\ documents[d].val.userId = u)
         \/ (store.documents[d].some /\ store.documents[d].val.userId = u)
         => store.documents[d] = documents[d]
  /\ {c \in store.chunks : c.userId = u} = {c \in documentChunks : c.userId = u}

\* C16: every result is a chunk owned by the user whose document is owned by
\* the user and has, when documentTypes is non-empty, a type in documentTypes;
\* and the same search against a store that differs only in rows of other
\* users gives the same result.
C16_SearchIsolation ==
  SearchReturned =>
    /\ \A i \in 1..Len(call.chunks) :
         \E c \in documentChunks :
           /\ c.userId = call.userId
           /\ ResultOf(call.chunks[i], c)
           /\ Eligible(c)
    /\ \A store \in SearchStores :
         SameRowsOf(store, call.userId) =>
           searchDocuments(store.documents, store.chunks, call.userId,
                           call.query, call.documentTypes) = call.chunks

\* C16: a search of user 1 with a type filter has returned chunks while user 2
\* holds a matching chunk in a document of that type.
C16_OtherUserHasMatch ==
  /\ SearchReturned
  /\ call.userId = 1
  /\ call.documentTypes = Some(<<"specifications">>)
  /\ Len(call.chunks) > 0
  /\ \E c \in MatchingChunks : ~Eligible(c)
  /\ \E c \in documentChunks :
       /\ c.userId = 2
       /\ ContainsTerm(c, call.query)
       /\ documents[c.documentId].val.documentType = "specifications"

\* ---------------------------------------- properties: executeCalculation

CalcOver == call.op = "executeCalculation" /\ call.pc \in {"returned", "threw"}

CalcReturned == call.op = "executeCalculation" /\ call.pc = "returned"

\* The value is a success object that echoes the input.
IsSuccess(value, input) ==
  /\ DOMAIN value = {"result", "explanation", "calculation_type", "input_values"}
  /\ value.calculation_type = input.calculation_type
  /\ value.input_values = input.values

\* The value is an object with an error field.
IsError(value) == DOMAIN value = {"error"}

\* C17: executeCalculation never raises an exception for any calculation
\* type, values map, formula and units: it returns a success object with
\* result, explanation, calculation_type and the echoed input values, or an
\* object with an error field.
C17_NeverRaises ==
  (CalcOver /\ "values" \in DOMAIN call.input) =>
    /\ call.pc = "returned"
    /\ IsSuccess(call.value.val, call.input) \/ IsError(call.value.val)

\* C17: a custom calculation whose formula could not be evaluated has
\* returned the error object.
C17_MalformedFormulaReturned ==
  /\ CalcReturned
  /\ "values" \in DOMAIN call.input
  /\ "calculation_type" \in DOMAIN call.input
  /\ call.input.calculation_type = "custom"
  /\ TruthyText(call.input, "formula")
  /\ ~CustomEvaluation(call.input).some
  /\ call.value.val = CalcError(<<"Invalid formula or values">>)

\* The formulas of each type, in the order the statement gives them.
TypeFormulas ==
  [ area   |-> << <<"length", "width">>, <<"radius">> >>,
    volume |-> << <<"length", "width", "height">>, <<"area", "depth">> >>,
    linear |-> << <<"quantity", "unit_length">> >>,
    weight |-> << <<"volume", "density">>, <<"quantity", "unit_weight">> >> ]

\* All inputs of the formula are present in values.
AllPresent(values, formula) == \A k \in 1..Len(formula) : formula[k] \in DOMAIN values

RECURSIVE ProductOfValues(_, _)
ProductOfValues(values, formula) ==
  IF Len(formula) = 0 THEN Whole(1)
  ELSE Times(Whole(values[formula[1]]), ProductOfValues(values, Tail(formula)))

\* What the formula gives: the product of its inputs, and pi times the
\* square of the radius.
FormulaValue(values, formula) ==
  IF formula = <<"radius">>
  THEN Times(PI, Times(Whole(values.radius), Whole(values.radius)))
  ELSE ProductOfValues(values, formula)

\* C18: for the types area, volume, linear and weight, executeCalculation
\* returns the value of the first formula of the type whose inputs are all
\* present in values, also when a present value is 0, and an error only when
\* no formula of the type has all its inputs present.
C18_FirstPresentFormula ==
  (/\ CalcReturned
   /\ "calculation_type" \in DOMAIN call.input
   /\ call.input.calculation_type \in DOMAIN TypeFormulas) =>
    LET formulas == TypeFormulas[call.input.calculation_type]
        values   == call.input.values
        present  == {k \in 1..Len(formulas) : AllPresent(values, formulas[k])}
    IN  IF present = {} THEN IsError(call.value.val)
        ELSE /\ IsSuccess(call.value.val, call.input)
             /\ call.value.val.result = FormulaValue(values, formulas[SetMin(present)])

\* C18, without the zeros: the same when no present value is 0.
C18_FirstNonZeroFormula ==
  (/\ CalcReturned
   /\ "calculation_type" \in DOMAIN call.input
   /\ call.input.calculation_type \in DOMAIN TypeFormulas
   /\ \A f \in DOMAIN call.input.values : call.input.values[f] # 0) =>
    LET formulas == TypeFormulas[call.input.calculation_type]
        values   == call.input.values
        present  == {k \in 1..Len(formulas) : AllPresent(values, formulas[k])}
    IN  IF present = {} THEN IsError(call.value.val)
        ELSE /\ IsSuccess(call.value.val, call.input)
             /\ call.value.val.result = FormulaValue(values, formulas[SetMin(present)])

\* ------------------------------------------- properties: splitIntoChunks

ChunksReturned == call.op = "splitIntoChunks" /\ call.pc = "returned"

\* The text of the window.
WindowText(text, w) == Slice(text, w.start, w.end)

\* c is the text t without the whitespace at its two ends.
IsTrimOf(c, t) ==
  \E a \in 0..Len(t) :
    /\ a + Len(c) <= Len(t)
    /\ \A k \in 1..Len(c) : t[a + k] = c[k]
    /\ \A k \in 1..Len(t) : (k <= a \/ k > a + Len(c)) => t[k] \in Whitespace
    /\ Len(c) > 0 => (c[1] \notin Whitespace /\ c[Len(c)] \notin Whitespace)

\* The length of t without the whitespace at its two ends.
TrimmedLength(t) ==
  LET ink == {k \in 1..Len(t) : t[k] \notin Whitespace}
  IN  IF ink = {} THEN 0 ELSE SetMax(ink) - SetMin(ink) + 1

\* The trimmed texts of the windows, in order.
TrimmedWindows == [i \in 1..Len(call.windows) |-> Trim(WindowText(call.text, call.windows[i]))]

\* The windows whose trimmed text has at least n characters.
WindowsOfLength(n) == {i \in 1..Len(call.windows) : Len(TrimmedWindows[i]) >= n}

\* The chunks are the trimmed texts of the windows in keep, in order.
ChunksAre(keep) ==
  /\ Len(call.chunks) = Cardinality(keep)
  /\ \A i \in keep :
       call.chunks[Cardinality({j \in keep : j <= i})] = TrimmedWindows[i]

\* C19, as stated: splitIntoChunks drops exactly the chunks shorter than 50
\* characters: every returned chunk has length >= 50, and every window whose
\* trimmed text has 50 or more characters is returned as a chunk.
C19_DropsShorterThan50 ==
  ChunksReturned =>
    /\ \A k \in 1..Len(call.chunks) : Len(call.chunks[k]) >= TINY_CHUNK
    /\ ChunksAre(WindowsOfLength(TINY_CHUNK))

\* C19, amended: splitIntoChunks drops exactly the chunks of 50 characters or
\* fewer: every returned chunk has length >= 51, and every window whose
\* trimmed text has 51 or more characters is returned as a chunk.
C19_DropsUpTo50 ==
  ChunksReturned =>
    /\ \A k \in 1..Len(call.chunks) : Len(call.chunks[k]) >= TINY_CHUNK + 1
    /\ ChunksAre(WindowsOfLength(TINY_CHUNK + 1))

\* C19: a text whose only window has exactly 50 characters has given no chunk.
C19_FiftyDropped ==
  /\ ChunksReturned
  /\ Len(call.windows) = 1
  /\ Len(TrimmedWindows[1]) = TINY_CHUNK
  /\ call.chunks = << >>

\* The length of the region the chunk shares with its predecessor: the longest
\* end of prev, of at most the overlap, that cur begins with.
SharedLength(prev, cur) ==
  SetMax({k \in 0..Min(CHUNK_OVERLAP, Min(Len(prev), Len(cur))) :
            \A j \in 1..k : prev[Len(prev) - k + j] = cur[j]})

\* The chunks from the k-th on, each without the region it shares with its
\* predecessor, one after the other.
RECURSIVE Reassemble(_, _)
Reassemble(chunks, k) ==
  IF k > Len(chunks) THEN << >>
  ELSE (IF k = 1 THEN chunks[1]
        ELSE SubSeq(chunks[k], SharedLength(chunks[k - 1], chunks[k]) + 1, Len(chunks[k])))
         \o Reassemble(chunks, k + 1)

\* C20, as stated: for any text longer than the chunk size, removing from
\* each chunk after the first the region it shares with its predecessor and
\* concatenating the chunks in order gives back the original text.
C20_ChunksGiveText ==
  (ChunksReturned /\ Len(call.text) > CHUNK_SIZE) =>
    Reassemble(call.chunks, 1) = call.text

\* The windows from the k-th on, each without the part before the end of its
\* predecessor, one after the other.
RECURSIVE ReassembleWindows(_, _, _)
ReassembleWindows(text, windows, k) ==
  IF k > Len(windows) THEN << >>
  ELSE Slice(text, IF k = 1 THEN windows[1].start ELSE windows[k - 1].end, windows[k].end)
         \o ReassembleWindows(text, windows, k + 1)

\* C20, amended: for any text longer than the chunk size, the windows that
\* splitIntoChunks cuts start at 0, each next one starts 200 characters before
\* the end of its predecessor, and removing from each window after the first
\* the region it shares with its predecessor and concatenating the windows in
\* order gives back the original text; the chunks are the windows without the
\* whitespace at their two ends, in order, except the windows that are left
\* with 50 characters or fewer, so the chunks themselves give back the text
\* only up to that whitespace and those windows.
C20_WindowsGiveText ==
  (ChunksReturned /\ Len(call.text) > CHUNK_SIZE) =>
    /\ call.windows[1].start = 0
    /\ \A i \in 2..Len(call.windows) :
         /\ call.windows[i].start = call.windows[i - 1].end - CHUNK_OVERLAP
         /\ call.windows[i].end > call.windows[i - 1].end
    /\ ReassembleWindows(call.text, call.windows, 1) = call.text
    /\ LET keep == {i \in 1..Len(call.windows) :
                      TrimmedLength(WindowText(call.text, call.windows[i])) > TINY_CHUNK}
       IN  /\ Len(call.chunks) = Cardinality(keep)
           /\ \A i \in keep :
                IsTrimOf(call.chunks[Cardinality({j \in keep : j <= i})],
                         WindowText(call.text, call.windows[i]))

\* C20: a text longer than the chunk size that ends in a line break has been
\* cut into more than one chunk, and the chunks do not end in the line break.
C20_EdgeWhitespaceLost ==
  /\ ChunksReturned
  /\ Len(call.text) > CHUNK_SIZE
  /\ call.text[Len(call.text)] = "\n"
  /\ Len(call.chunks) > 1
  /\ Reassemble(call.chunks, 1) # call.text

\* ------------------------------------- properties: documents, second part

\* The persisted chunks of document d.
ChunksOf(d) == {c \in documentChunks : c.documentId = d}

\* C21: after a pdf or txt document has been processed to completed, its
\* pageCount is >= 1 and the pageNumber of every chunk of it lies between 1
\* and pageCount, the chunk that starts at character offset 0 included.
C21_PageNumbersInRange ==
  \A d \in DocIds :
    (/\ documents[d].some
     /\ Status(d) = "completed"
     /\ documents[d].val.fileType \in {"pdf", "txt"}) =>
      /\ documents[d].val.pageCount.some
      /\ documents[d].val.pageCount.val >= 1
      /\ \A c \in ChunksOf(d) :
           /\ c.pageNumber.some
           /\ c.pageNumber.val >= 1
           /\ c.pageNumber.val <= documents[d].val.pageCount.val

\* C23: a document whose status is completed has a non-null extractedText and
\* all the chunk records produced from that text are persisted.
C23_CompletedHasChunks ==
  \A d \in DocIds :
    (documents[d].some /\ Status(d) = "completed") =>
      /\ documents[d].val.extractedText.some
      /\ ChunkRecords(d, documents[d].val.userId, documents[d].val.extractedText.val,
                      documents[d].val.pageCount) \subseteq documentChunks

\* C28: a document whose status is failed has no persisted chunks.
C28_FailedHasNoChunks ==
  \A d \in DocIds :
    (documents[d].some /\ Status(d) = "failed") => ChunksOf(d) = {}

\* ------------------------------------------------- properties: chat.send

SendReturned == call.op = "chat.send" /\ call.pc = "returned"

\* The messages of the conversation of the call are the two the call saved.
SentFirstMessage ==
  {m.id : m \in {r \in messages : r.conversationId = call.conversationId}}
    = {call.userMessage, call.userMessage + 1}

\* C22: after the first message is sent through chat.send to a conversation
\* that was created without a title, the conversation's title is derived from
\* that message: the message itself, or its first 47 characters followed by
\* "..." when it is longer than 50 characters.
C22_FirstMessageGivesTitle ==
  (/\ SendReturned
   /\ call.conversation.val.title = DEFAULT_TITLE
   /\ SentFirstMessage) =>
    conversations[call.conversationId].val.title = DerivedTitle(call.message)

\* The caller of the call owns the conversation of the call.
OwnsConversation(table) ==
  /\ call.conversationId \in DOMAIN table
  /\ table[call.conversationId].some
  /\ table[call.conversationId].val.userId = call.userId

\* C27: chat.send on a conversation id that the caller does not own fails
\* with "Conversation not found" (with the error of the lookup when the lookup
\* itself raises) and changes nothing: every step of such a call leaves the
\* conversations with their lastMessageAt and the messages as they are and
\* does not run the agent, and the call never gets past the check.
C27_ForeignSendChangesNothing ==
  [][ (/\ call' # call
       /\ call'.op = "chat.send"
       /\ ~OwnsConversation(conversations)) =>
        /\ conversations' = conversations
        /\ messages' = messages
        /\ outcome' = None
        /\ call'.pc \in {"verify", "threw"}
        /\ call'.pc = "threw" =>
             call'.error \in {"Conversation not found", "getConversationById"} ]_vars

\* C27: a send to a conversation of another user, which holds messages, has
\* failed with "Conversation not found".
C27_ForeignSendFailed ==
  /\ call.op = "chat.send"
  /\ call.pc = "threw"
  /\ call.error = "Conversation not found"
  /\ call.conversationId \in DOMAIN conversations
  /\ conversations[call.conversationId].val.userId # call.userId
  /\ \E m \in messages : m.conversationId = call.conversationId

\* ------------------------------------------- properties: the tool loop

\* The tool calls the first response requests.
Requested == llmLog[1].response.message.val.tool_calls.val

\* The ToolCallResult of one requested call against the store of the run.
ToolCallResult(toolCall) ==
  LET toolInput == JSONParse(toolCall.arguments)
  IN  [tool   |-> toolCall.name,
       input  |-> toolInput,
       output |-> ToolOutput(toolCall.name, toolInput,
                             SearchResults(documents, documentChunks, run.userId,
                                           toolCall.name, toolInput))]

\* C24: when the first response requests tools, the calls are executed one at
\* a time in the requested order (after k iterations the recorded entries are
\* the results of the first k requested calls, and all of them when the loop
\* is left); a run that returns gives a toolCalls list with exactly one entry
\* per requested call, in that order, an unknown tool name giving an entry
\* whose output is an error; and the second invocation receives the messages
\* of the first followed by the assistant message and one tool-result message
\* per requested call, in the same order, each with the id of its call and
\* the output recorded for it.
C24_ToolsInRequestedOrder ==
  FirstRequestsTools =>
    /\ run.pc \in {"tools", "secondLLM"} =>
         LET done == IF run.pc = "tools" THEN run.next - 1 ELSE Len(Requested)
         IN  /\ done \in 0..Len(Requested)
             /\ run.toolCalls = [i \in 1..done |-> ToolCallResult(Requested[i])]
    /\ Returned =>
         /\ Len(outcome.val.toolCalls) = Len(Requested)
         /\ \A i \in 1..Len(Requested) :
              /\ outcome.val.toolCalls[i].tool = Requested[i].name
              /\ outcome.val.toolCalls[i].input = JSONParse(Requested[i].arguments)
              /\ Requested[i].name = "lookup_weather" =>
                   DOMAIN outcome.val.toolCalls[i].output = {"error"}
    /\ Len(llmLog) >= 2 =>
         LET sent  == llmLog[2].messages
             first == Len(llmLog[1].messages)
         IN  /\ Len(sent) = first + 1 + Len(Requested)
             /\ SubSeq(sent, 1, first) = llmLog[1].messages
             /\ sent[first + 1] =
                  [role |-> "assistant",
                   content |-> ContentText(llmLog[1].response.message.val.content)]
             /\ \A i \in 1..Len(Requested) :
                  /\ sent[first + 1 + i].role = "tool"
                  /\ sent[first + 1 + i].tool_call_id = Requested[i].id
                  /\ Returned =>
                       sent[first + 1 + i].json =
                         JSONStringify(outcome.val.toolCalls[i].output)

\* C24: a run has returned whose first response requested a search and then an
\* unknown tool, under two different call ids.
C24_TwoToolsReturned ==
  /\ Returned
  /\ FirstRequestsTools
  /\ Len(Requested) = 2
  /\ Requested[1].name = "search_documents"
  /\ Requested[2].name = "lookup_weather"
  /\ Requested[1].id # Requested[2].id
  /\ Len(outcome.val.toolCalls) = 2
  /\ Len(llmLog) = 2

\* ------------------------------- properties: splitIntoChunks, its loop

\* A step of the loop of splitIntoChunks that is not the last one.
LoopIteration == call.pc = "loop" /\ call'.pc = "loop" /\ call' # call

InnerWindows ==
  {i \in 1..Len(call.windows) :
     call.windows[i].start + call.chunkSize < Len(call.text)}

\* Where the break point bp occurs inside the window that starts at start,
\* no earlier than the window's midpoint.
OccurrencesInside(bp, start) ==
  {i \in 0..(Len(call.text) - Len(bp)) :
     /\ MatchAt(call.text, bp, i)
     /\ 2 * i >= 2 * start + call.chunkSize
     /\ i + Len(bp) <= start + call.chunkSize}

\* C26: when a window does not reach the end of the text and a break point
\* (paragraph break, period-newline, period-space, newline, in that order)
\* occurs inside the window no earlier than its midpoint, the window ends just
\* after the last such occurrence of the first kind that has one; when no kind
\* has one, the window ends at start + chunkSize.
C26_EndsAfterBreakPoint ==
  call.pc \in {"loop", "returned"} =>
    \A w \in InnerWindows :
      LET start == call.windows[w].start
          kinds == {k \in 1..Len(breakPoints) :
                      OccurrencesInside(breakPoints[k], start) # {}}
      IN  IF kinds = {}
          THEN call.windows[w].end = start + call.chunkSize
          ELSE LET bp == breakPoints[SetMin(kinds)]
               IN  call.windows[w].end
                     = SetMax(OccurrencesInside(bp, start)) + Len(bp)

\* ------------------------------- properties: splitIntoChunks, chunk size

\* C30: every chunk splitIntoChunks returns has at most chunkSize
\* characters, and no window it cut ends beyond its start + chunkSize.
C30_AtMostChunkSize ==
  ChunksReturned =>
    /\ \A i \in 1..Len(call.chunks) : Len(call.chunks[i]) <= CHUNK_SIZE
    /\ \A w \in 1..Len(call.windows) :
         call.windows[w].end <= call.windows[w].start + CHUNK_SIZE

\* --------------------------------------------- properties: runAgentStream

\* The generator of runAgentStream has ended, by returning or by throwing.
StreamEnded == call.op = "runAgentStream" /\ call.pc \in {"done", "threw"}

\* Text a begins text b.
IsPrefix(a, b) == Len(a) <= Len(b) /\ SubSeq(b, 1, Len(a)) = a

\* The events have the form: one 'tool' event per tool call of the response,
\* in order, then 'content' events each extending the one before, then one
\* 'citation' event per citation, in order, then one 'done' event with the
\* response.
StreamForm(events, r) ==
  LET n        == Len(events)
      tools    == Len(r.toolCalls)
      cites    == Len(r.citations)
      contents == n - tools - cites - 1
  IN  /\ contents >= 0
      /\ \A k \in 1..tools : events[k] = Event("tool", r.toolCalls[k])
      /\ \A k \in (tools + 1)..(tools + contents) :
           /\ events[k].type = "content"
           /\ k > tools + 1 => IsPrefix(events[k - 1].data, events[k].data)
      /\ \A k \in 1..cites :
           events[tools + contents + k] = Event("citation", r.citations[k])
      /\ events[n] = Event("done", r)

\* C29: every event sequence runAgentStream produces has the form: all 'tool'
\* events, then the 'content' events, then all 'citation' events, then
\* exactly one 'done' event with the whole response, which is the last event.
C29_EventOrder ==
  StreamEnded =>
    /\ call.response.some
    /\ StreamForm(call.events, call.response.val)

====
